---------------------------- MODULE Spec2Model ----------------------------
(***************************************************************************)
(* A model of the ADCP acquisition service (vpatrinica/adcp):              *)
(*   - the daily-rotating persistence sink      (src/src/persistence.rs)   *)
(*   - the recording pipeline's worker loop     (src/src/service.rs)       *)
(*   - the per-append handoff sink              (src/src/backup.rs)        *)
(*   - the two handoff processors               (src/src/processing.rs,    *)
(*                                     src/src/bin/adcp-proc-manager.rs)   *)
(*   - the supervisor and its watchdog          (src/src/service.rs)       *)
(*   - the sentence parser                      (src/src/parser.rs)        *)
(*   - tasks that share one persistence sink    (src/src/persistence.rs)   *)
(*   - the long-lived backup sink               (src/src/backup.rs)        *)
(*   - a child's heartbeat and the watchdog     (src/src/service.rs)       *)
(* Each subsystem has its own specifications (SpecPersist, SpecRec,        *)
(* SpecLoop, SpecMgr, SpecSup, SpecParse, SpecAppend, SpecStop, SpecCrash, *)
(* SpecWatch, SpecBackup, SpecBeat, SpecRecreate, SpecOrch, SpecBacklog,   *)
(* ...) over one set of variables;                                         *)
(* a specification leaves the variables of the other subsystems unchanged. *)
(***************************************************************************)
EXTENDS Integers, Sequences, FiniteSets, Bags, TLC

VARIABLES
    \* ---- persistence sink (PersistenceInner + the files of the base dir)
    pInner,     \* [date, file, pending]: PersistenceInner; 0 stands for None
    pDisk,      \* [exists, content]: the adcp-<date>.log files of the base dir
    pHist,      \* the append calls made so far: Seq of [date, ok, at]
    pAlive,     \* FALSE once the sink has been dropped
    \* ---- recording pipeline (the worker future of Service::run_recording)
    rPc,        \* where the worker future is suspended or about to run
    rRun,       \* "running", "cancelled" (future dropped) or "failed" (Err)
    rLine,      \* how many lines next_line has returned
    rLog,       \* the destination steps done so far: Seq of [line, step, ok]
    rRaw,       \* the text of each line next_line has returned, in order
    \* ---- the handoff directory, its writer and its processors
    now,        \* the wall clock, in seconds
    hdir,       \* data_process_folder: a set of files [name, mtime, lines]
    pdir,       \* processed_folder: a set of files [name, lines]
    replays,    \* the files replay_sample has read: Bag of [name, lines]
    wPc,        \* the per-append sink: "idle", or "marker" inside an append
    wDate,      \* the date of the recorder's clock: the file it appends to
    wN,         \* how many lines the per-append sink has appended
    wOpen,      \* the files the per-append sink holds an open handle on
    lPc,        \* run_processing_loop: its position
    lQueue,     \* run_processing_loop: the sorted files left in this cycle
    lCur,       \* run_processing_loop: the file at hand
    lAnyWork,   \* run_processing_loop: any_work
    lShutdown,  \* the owner has sent () on the shutdown watch channel
    mPc,        \* scan_and_process: its position
    mQueue,     \* scan_and_process: the directory entries left in this scan
    mCur,       \* scan_and_process: the entry at hand
    mNow,       \* scan_and_process: `now`, taken when the scan starts
    workers,    \* the spawned worker tasks: a set of [input, fname, st, cyc];
                \* cyc: the task was spawned by the latest scan
    \* ---- the supervisor (Service::run_orchestrator) and its children
    sClock,     \* the wall clock of the supervisor's host, in seconds
    hb,         \* per child, its heartbeat file: {mtime}, or {} for no file
    slot,       \* per child, the Option<Child> of its Arc<Mutex<..>>: a pid or 0
    alive,      \* the pids of the child processes that are running
    nSpawned,   \* how many child processes have been spawned
    born,       \* per child process, the clock's reading when it was spawned
    nBeats,     \* how many heartbeat writes the children have made
    cPc,        \* per child, the position of its check_and_restart future
    wdPc,       \* the watchdog task: "tick", "checking" or "aborted"
    wdNow,      \* the watchdog's `now`, taken after the tick
    oPc,        \* run_orchestrator: "wait", the child it kills next, "cleanup",
                \* "returned"
    \* ---- the parser (Frame::from_line)
    fIn,        \* the line at hand: how it is put together
    fOut,       \* what from_line returned for it
    fPc,        \* "idle", "parse" (a line is there) or "done"
    \* tasks that call append on one shared sink (persistence.rs)
    aInner,     \* the PersistenceInner behind the mutex
    aDisk,      \* the daily files: what has been written, piece by piece
    aOwner,     \* the task that holds the MutexGuard; 0: the mutex is free
    aPc,        \* per task: where in append it is
    aFrame,     \* per task: the frame of its call
    aTaken,     \* per task: the pending lines it took and has yet to write
    aCalls,     \* the frames of the calls made, in the order they were made
    \* ---- the long-lived backup sink (Backup with per_append = false)
    bCur,       \* [date, file]: current_date and current_file; 0 stands for None
    bFiles,     \* the <date>.raw files of the backup folder: per date, its lines
    bLog,       \* the append calls made so far: Seq of [date, ok, at]
    \* ---- a child's heartbeat beside the watchdog's reading of it
    kSecs,      \* file_stability_seconds of the configuration
    kClock,     \* the wall clock, in seconds
    kBeat,      \* the mtime of the heartbeat file
    kSeen       \* what the watchdog's checks made of the file: Seq of `stale`

pvars == <<pInner, pDisk, pHist, pAlive>>

rvars == <<rPc, rRun, rLine, rLog, rRaw>>

\* The handoff directory and its writer.
hvars == <<now, hdir, pdir, replays, wPc, wDate, wN, wOpen>>

lvars == <<lPc, lQueue, lCur, lAnyWork, lShutdown>>

mvars == <<mPc, mQueue, mCur, mNow, workers>>

svars == <<sClock, hb, slot, alive, nSpawned, born, nBeats, cPc, wdPc, wdNow, oPc>>

fvars == <<fIn, fOut, fPc>>

avars == <<aInner, aDisk, aOwner, aPc, aFrame, aTaken, aCalls>>

bvars == <<bCur, bFiles, bLog>>

kvars == <<kSecs, kClock, kBeat, kSeen>>

vars == <<pInner, pDisk, pHist, pAlive, rPc, rRun, rLine, rLog, rRaw,
          now, hdir, pdir, replays, wPc, wDate, wN, wOpen,
          lPc, lQueue, lCur, lAnyWork, lShutdown, mPc, mQueue, mCur, mNow, workers,
          sClock, hb, slot, alive, nSpawned, born, nBeats, cPc, wdPc, wdNow, oPc,
          fIn, fOut, fPc,
          aInner, aDisk, aOwner, aPc, aFrame, aTaken, aCalls,
          bCur, bFiles, bLog, kSecs, kClock, kBeat, kSeen>>

\* ------------------------------------------------------------------ bounds
MaxAppends == 4     \* append calls made on one sink
NDates == 2         \* distinct sent_at dates a frame may carry
MaxFails == 1       \* append calls that meet an I/O error
MaxLines == 2       \* lines the recorder's source delivers
MaxTime == 1        \* seconds the clock runs
NFiles == 2         \* dates the handoff writer's clock goes through
MaxWrites == 2      \* lines the per-append sink appends
MaxSfx == 2         \* suffixes a handoff file name is followed through
MaxSupTime == 15    \* seconds the supervisor's clock runs
ClockStep == 5      \* seconds between two readings of the supervisor's clock
MaxRespawns == 1    \* child processes the watchdog spawns
MaxBeats == 1       \* heartbeat writes the children make
NTasks == 2         \* tasks that share one persistence sink
MaxCalls == 3       \* append calls the tasks make between them
MaxAlter == 30      \* other byte values a sentence's checksum is changed to
MaxSecs == 40       \* the largest value of a number of seconds: stands for u64::MAX
MaxBeatTime == 12   \* seconds the clock of a heartbeating child runs
MaxChecks == 2      \* readings the watchdog makes of one heartbeat file
NBacklog == 5       \* files a manager finds in the handoff directory at its start

Dates == 1..NDates

(***************************************************************************)
(* Persistence (src/src/persistence.rs)                                    *)
(*                                                                         *)
(* A frame is [id, date]: id is the index of the append call that carries  *)
(* it and stands for its serialized line (to_persistence_line); date is    *)
(* the date of payload.sent_at(), 0 when the payload has none (Config).    *)
(***************************************************************************)

\* Persistence::new: no date, no file, nothing pending.
PersistenceNew == [date |-> 0, file |-> 0, pending |-> <<>>]

EmptyDisk == [exists |-> {}, content |-> [d \in Dates |-> <<>>]]

\* open_file with truncate(true) instead of append(true).
OpenFileTruncating(disk, d) ==
    [exists |-> disk.exists \cup {d}, content |-> [disk.content EXCEPT ![d] = <<>>]]

\* open_file: OpenOptions create(true).append(true) on adcp-<date>.log.
OpenFile(disk, d) ==
    [exists |-> disk.exists \cup {d}, content |-> disk.content]

\* write_all(line) + write_all("\n") on the open handle, for each line in turn.
WriteLines(disk, h, lines) ==
    [disk EXCEPT !.content[h] = @ \o lines]

\* The pending lines written after the frame that triggered the flush.
FlushPendingAfter(disk, h, pending, line) ==
    WriteLines(disk, h, <<line>> \o pending)

\* Lines 49-62 followed by 94-101: the pending lines, then the frame's line.
FlushPendingThenFrame(disk, h, pending, line) ==
    WriteLines(disk, h, pending \o <<line>>)

\* Lines 94-105: write the frame line to the current file, or bail.
WriteFrame(inner, disk, line, fail) ==
    IF inner.file = 0 \/ fail.at = "frame"
    THEN [inner |-> inner, disk |-> disk, ok |-> FALSE]
    ELSE [inner |-> inner, disk |-> WriteLines(disk, inner.file, <<line>>), ok |-> TRUE]

\* A sink that takes the date of recorded_at (the observer's wall clock, here
\* the first date) for a frame that has no sent_at.
FrameDateOrRecordedAt(frame) == IF frame.date = 0 THEN 1 ELSE frame.date

\* Line 45: frame.payload.sent_at().map(|dt| dt.date_naive()); 0 is None.
FrameDate(frame) == frame.date

\* A sink that takes the new date before it opens the file.
AfterOpenErrorDated(inner, fd) == [inner EXCEPT !.date = fd]

\* Lines 48-49, 66-67: open_file(date).await? returns the Err before
\* inner.file and inner.date are assigned.
AfterOpenError(inner, fd) == inner

\* A sink that buffers every undated frame.
UndatedAlwaysBuffered(inner) == FALSE

\* Line 87, (None, Some(date)) => Some(date): with a current file an undated
\* frame is written like a dated one.
UndatedToFile(inner) == inner.date # 0

\* Persistence::append. fail names the I/O operation that errors in this call:
\* "none", "open" (open_file), "pending" (the write of pending line k+1, or the
\* flush when k = Len(pending)), "frame" (the write or flush of the frame line).
PersistAppend(inner, disk, frame, fail) ==
    LET line == frame
        fd == FrameDate(frame)
    IN  IF fd # 0 /\ inner.date # fd
        THEN \* (Some(date), current) if current != Some(date)
             IF fail.at = "open"
             THEN [inner |-> AfterOpenError(inner, fd), disk |-> disk, ok |-> FALSE]
             ELSE LET opened == OpenFile(disk, fd)
                      taken == [date |-> fd, file |-> fd, pending |-> <<>>]
                  IN  IF fail.at = "pending"
                      THEN [inner |-> taken,
                            disk |-> WriteLines(opened, fd, SubSeq(inner.pending, 1, fail.k)),
                            ok |-> FALSE]
                      ELSE IF fail.at = "frame"
                      THEN [inner |-> taken,
                            disk |-> WriteLines(opened, fd, inner.pending),
                            ok |-> FALSE]
                      ELSE [inner |-> taken,
                            disk |-> FlushPendingThenFrame(opened, fd, inner.pending, line),
                            ok |-> TRUE]
        ELSE IF fd # 0
        THEN \* (Some(date), current): current = Some(date), nothing to open
             WriteFrame(inner, disk, line, fail)
        ELSE IF UndatedToFile(inner)
        THEN \* (None, Some(date)): an undated frame goes to the current file
             WriteFrame(inner, disk, line, fail)
        ELSE \* (None, None): buffered
             [inner |-> [inner EXCEPT !.pending = Append(@, line)],
              disk |-> disk, ok |-> TRUE]

\* Whether the I/O operation that fail names is one this call performs.
FailApplies(inner, frame, fail) ==
    LET rotates == frame.date # 0 /\ inner.date # frame.date
    IN  CASE fail.at = "none" -> TRUE
          [] fail.at = "open" -> rotates
          [] fail.at = "pending" -> rotates /\ inner.pending # <<>>
                                    /\ fail.k <= Len(inner.pending)
          [] fail.at = "frame" -> frame.date # 0 \/ UndatedToFile(inner)

Fails ==
    {[at |-> a, k |-> 0] : a \in {"none", "open", "frame"}}
        \cup {[at |-> "pending", k |-> k] : k \in 0..MaxAppends}

NFailed(h) == Cardinality({i \in 1..Len(h) : ~h[i].ok})

\* One call of persistence.append(&frame) on the sink.
PAppend(d, fail) ==
    /\ pAlive
    /\ Len(pHist) < MaxAppends
    /\ LET frame == [id |-> Len(pHist) + 1, date |-> d]
       IN  /\ FailApplies(pInner, frame, fail)
           /\ fail.at # "none" => NFailed(pHist) < MaxFails
           /\ LET r == PersistAppend(pInner, pDisk, frame, fail)
              IN  /\ pInner' = r.inner
                  /\ pDisk' = r.disk
                  /\ pHist' = Append(pHist, [date |-> d, ok |-> r.ok, at |-> fail.at])
    /\ UNCHANGED pAlive
    /\ UNCHANGED <<fvars, rvars, hvars, lvars, mvars, svars, avars, bvars, kvars>>

\* The sink is dropped: the Arc<Persistence> of replay_sample at its return, the
\* recorder's at the end of run_recording. PersistenceInner has no Drop code, so
\* its pending lines go with it.
PDiscard ==
    /\ pAlive
    /\ pAlive' = FALSE
    /\ UNCHANGED <<pInner, pDisk, pHist>>
    /\ UNCHANGED <<fvars, rvars, hvars, lvars, mvars, svars, avars, bvars, kvars>>

\* Persistence::current_path: adcp-<date>.log for the sink's date, named here
\* by that date; with no date yet (0) the code takes Utc::now().
CurrentPath(inner) == inner.date

PInit ==
    /\ pInner = PersistenceNew
    /\ pDisk = EmptyDisk
    /\ pHist = <<>>
    /\ pAlive = TRUE

PNext ==
    \/ \E d \in 0..NDates, fail \in Fails : PAppend(d, fail)
    \/ PDiscard

(***************************************************************************)
(* The parser (src/src/parser.rs)                                          *)
(*                                                                         *)
(* A line is a sequence of bytes, written by their ASCII codes.  from_line *)
(* is computed on the bytes as the code computes it; of a parsed payload   *)
(* the model keeps the kind of the sentence.                               *)
(***************************************************************************)
\* char::is_whitespace on ASCII: tab, LF, VT, FF, CR and the space.
IsSpace(c) == c \in 9..13 \/ c = 32

IsDigit(c) == c \in 48..57

\* char::is_ascii_hexdigit: 0-9, A-F, a-f.
IsHexDigit(c) == IsDigit(c) \/ c \in 65..70 \/ c \in 97..102

\* The value of a hex digit, as u8::from_str_radix(_, 16) reads it.
HexVal(c) == IF IsDigit(c) THEN c - 48 ELSE IF c \in 65..70 THEN c - 55 ELSE c - 87

\* str::trim: from the first to the last byte that is not whitespace.
Trim(s) ==
    LET keep == {i \in 1..Len(s) : ~IsSpace(s[i])}
    IN  IF keep = {} THEN <<>>
        ELSE SubSeq(s, CHOOSE i \in keep : \A j \in keep : i <= j,
                       CHOOSE i \in keep : \A j \in keep : j <= i)

\* line.trim_end_matches(|c| c == '\r' || c == '\n')
TrimEol(s) ==
    LET keep == {i \in 1..Len(s) : s[i] \notin {10, 13}}
    IN  IF keep = {} THEN <<>>
        ELSE SubSeq(s, 1, CHOOSE i \in keep : \A j \in keep : j <= i)

\* raw.rsplit_once('*'): the index of the last '*', 0 when there is none.
LastStar(s) ==
    IF \E i \in 1..Len(s) : s[i] = 42
    THEN CHOOSE i \in 1..Len(s) : s[i] = 42 /\ \A j \in (i + 1)..Len(s) : s[j] # 42
    ELSE 0

\* Lines 155-169: the loop over checksum_hex.chars().enumerate(), from the
\* char of index i on.  It skips whitespace anywhere and other non-hex chars
\* before the first hex digit; last stays 0 unless two hex digits were found.
RECURSIVE ScanHex(_, _, _)
ScanHex(cs, i, hex) ==
    IF i >= Len(cs) THEN [hex |-> hex, last |-> 0]
    ELSE LET c == cs[i + 1]
         IN  IF IsHexDigit(c)
             THEN IF Len(hex) = 1
                  THEN [hex |-> Append(hex, c), last |-> i + 1]
                  ELSE ScanHex(cs, i + 1, Append(hex, c))
             ELSE IF ~IsSpace(c) /\ hex # <<>>
             THEN [hex |-> hex, last |-> 0]
             ELSE ScanHex(cs, i + 1, hex)

OccursAt(s, pat, p) ==
    p + Len(pat) <= Len(s) /\ SubSeq(s, p + 1, p + Len(pat)) = pat

\* str::find(pat): the byte offset of the first occurrence, -1 for None.
Find(s, pat) ==
    IF \E p \in 0..Len(s) : OccursAt(s, pat, p)
    THEN CHOOSE p \in 0..Len(s) :
            OccursAt(s, pat, p) /\ \A q \in 0..(p - 1) : ~OccursAt(s, pat, q)
    ELSE -1

\* $PNORI,4,Signature1000_100297,4,21,0.20,1.00,0
BodyConfig ==
    <<36, 80, 78, 79, 82, 73, 44, 52, 44, 83, 105, 103, 110, 97, 116, 117,
      114, 101, 49, 48, 48, 48, 95, 49, 48, 48, 50, 57, 55, 44, 52, 44, 50,
      49, 44, 48, 46, 50, 48, 44, 49, 46, 48, 48, 44, 48>>

\* $PNORS,010526,220800,00000000,3ED40002,23.7,1532.0,275.4,-49.1,83.0,0.000,24.02,0,0
BodySensor ==
    <<36, 80, 78, 79, 82, 83, 44, 48, 49, 48, 53, 50, 54, 44, 50, 50, 48,
      56, 48, 48, 44, 48, 48, 48, 48, 48, 48, 48, 48, 44, 51, 69, 68, 52,
      48, 48, 48, 50, 44, 50, 51, 46, 55, 44, 49, 53, 51, 50, 46, 48, 44,
      50, 55, 53, 46, 52, 44, 45, 52, 57, 46, 49, 44, 56, 51, 46, 48, 44,
      48, 46, 48, 48, 48, 44, 50, 52, 46, 48, 50, 44, 48, 44, 48>>

\* $PNORC,010526,220800,4,0.56,-0.80,-1.99,-1.33,0.98,305.2,C,80,88,67,78,13,17,10,18
BodyCurrent ==
    <<36, 80, 78, 79, 82, 67, 44, 48, 49, 48, 53, 50, 54, 44, 50, 50, 48,
      56, 48, 48, 44, 52, 44, 48, 46, 53, 54, 44, 45, 48, 46, 56, 48, 44,
      45, 49, 46, 57, 57, 44, 45, 49, 46, 51, 51, 44, 48, 46, 57, 56, 44,
      51, 48, 53, 46, 50, 44, 67, 44, 56, 48, 44, 56, 56, 44, 54, 55, 44,
      55, 56, 44, 49, 51, 44, 49, 55, 44, 49, 48, 44, 49, 56>>

\* $PNORC,010526,220800,1,-9.00,-9,-9.0,-9.99,-9,305.2,C,-9,-9,-9,-9,-9,-9,-9,-9
BodyCurrentSentinels ==
    <<36, 80, 78, 79, 82, 67, 44, 48, 49, 48, 53, 50, 54, 44, 50, 50, 48,
      56, 48, 48, 44, 49, 44, 45, 57, 46, 48, 48, 44, 45, 57, 44, 45, 57,
      46, 48, 44, 45, 57, 46, 57, 57, 44, 45, 57, 44, 51, 48, 53, 46, 50,
      44, 67, 44, 45, 57, 44, 45, 57, 44, 45, 57, 44, 45, 57, 44, 45, 57,
      44, 45, 57, 44, 45, 57, 44, 45, 57>>

\* $PNORX,1,2
BodyUnsupported ==
    <<36, 80, 78, 79, 82, 88, 44, 49, 44, 50>>

\* $PNORI,4,Signature1000_100297,4
BodyShortConfig ==
    <<36, 80, 78, 79, 82, 73, 44, 52, 44, 83, 105, 103, 110, 97, 116, 117,
      114, 101, 49, 48, 48, 48, 95, 49, 48, 48, 50, 57, 55, 44, 52>>

\* $PNORS,130526,220800,00000000,3ED40002,23.7,1532.0,275.4,-49.1,83.0,0.000,24.02,0,0
BodyBadMonth ==
    <<36, 80, 78, 79, 82, 83, 44, 49, 51, 48, 53, 50, 54, 44, 50, 50, 48,
      56, 48, 48, 44, 48, 48, 48, 48, 48, 48, 48, 48, 44, 51, 69, 68, 52,
      48, 48, 48, 50, 44, 50, 51, 46, 55, 44, 49, 53, 51, 50, 46, 48, 44,
      50, 55, 53, 46, 52, 44, 45, 52, 57, 46, 49, 44, 56, 51, 46, 48, 44,
      48, 46, 48, 48, 48, 44, 50, 52, 46, 48, 50, 44, 48, 44, 48>>

\* $PNORI,4,Signature1000_100297,400,21,0.20,1.00,0
BodyBeamsOverflow ==
    <<36, 80, 78, 79, 82, 73, 44, 52, 44, 83, 105, 103, 110, 97, 116, 117,
      114, 101, 49, 48, 48, 48, 95, 49, 48, 48, 50, 57, 55, 44, 52, 48, 48,
      44, 50, 49, 44, 48, 46, 50, 48, 44, 49, 46, 48, 48, 44, 48>>

\* PNORI,4,Signature1000_100297,4,21,0.20,1.00,0
BodyNoDollar ==
    <<80, 78, 79, 82, 73, 44, 52, 44, 83, 105, 103, 110, 97, 116, 117, 114,
      101, 49, 48, 48, 48, 95, 49, 48, 48, 50, 57, 55, 44, 52, 44, 50, 49,
      44, 48, 46, 50, 48, 44, 49, 46, 48, 48, 44, 48>>

\* prefix_junk
PrefixJunk ==
    <<112, 114, 101, 102, 105, 120, 95, 106, 117, 110, 107>>

\* suffix_junk
SuffixJunk ==
    <<115, 117, 102, 102, 105, 120, 95, 106, 117, 110, 107>>

\* $PNORC
MarkerPNORC ==
    <<36, 80, 78, 79, 82, 67>>

\* $PNORS
MarkerPNORS ==
    <<36, 80, 78, 79, 82, 83>>

\* $PNORI
MarkerPNORI ==
    <<36, 80, 78, 79, 82, 73>>

\* Lines 184-193: the smallest offset at which one of the three sentence
\* markers occurs in the body, -1 when none does.
FoundPos(body) ==
    LET hits == {Find(body, m) : m \in {MarkerPNORC, MarkerPNORS, MarkerPNORI}} \ {-1}
    IN  IF hits = {} THEN -1 ELSE CHOOSE p \in hits : \A q \in hits : p <= q

\* Bit k of the XOR of all bytes: set when an odd number of them has it set.
XorBit(s, k) == Cardinality({i \in 1..Len(s) : (s[i] \div (2 ^ k)) % 2 = 1}) % 2

\* body_valid.bytes().fold(0u8, |acc, b| acc ^ b), bit by bit.
XorFold(s) ==
    XorBit(s, 0) + 2 * XorBit(s, 1) + 4 * XorBit(s, 2) + 8 * XorBit(s, 3)
        + 16 * XorBit(s, 4) + 32 * XorBit(s, 5) + 64 * XorBit(s, 6)
        + 128 * XorBit(s, 7)

\* body.strip_prefix('$').unwrap_or(body)
StripDollar(body) == IF body # <<>> /\ body[1] = 36 THEN Tail(body) ELSE body

\* A parser that returns the frame whatever the checksum.
ChecksumAcceptedAlways(provided, computed) == TRUE

\* Lines 206-210: `if provided != computed { bail!(..) }`.
\* A comparison of the last hex digit alone.
ChecksumAcceptedLowDigit(provided, computed) == provided % 16 = computed % 16

ChecksumAccepted(provided, computed) == provided = computed

\* The Err of validate_checksum: its message, and for a mismatch the two
\* bytes that the message carries.
NoChecksum(err, provided, computed) ==
    [ok |-> FALSE, err |-> err, provided |-> provided, computed |-> computed,
     body |-> <<>>, discarded |-> <<>>]

\* A piece of the line that is cut off: recorded unless it is all whitespace.
Junk(t) == IF Trim(t) # <<>> THEN <<t>> ELSE <<>>

\* validate_checksum(raw): Err, or (provided, computed, body, discarded).
ValidateChecksum(raw) ==
    LET star == LastStar(raw)
        body_raw == SubSeq(raw, 1, star - 1)
        checksum_hex == SubSeq(raw, star + 1, Len(raw))
        sc == ScanHex(checksum_hex, 0, <<>>)
        after == IF sc.last < Len(checksum_hex)
                 THEN Junk(SubSeq(checksum_hex, sc.last + 1, Len(checksum_hex)))
                 ELSE <<>>
        provided == 16 * HexVal(sc.hex[1]) + HexVal(sc.hex[2])
        pos == FoundPos(body_raw)
        before == IF pos > 0 THEN Junk(SubSeq(body_raw, 1, pos)) ELSE <<>>
        body == IF pos > 0 THEN SubSeq(body_raw, pos + 1, Len(body_raw)) ELSE body_raw
        body_valid == StripDollar(body)
        computed == XorFold(body_valid)
    IN  IF star = 0 THEN NoChecksum("missing '*'", 0, 0)
        ELSE IF Len(sc.hex) # 2 THEN NoChecksum("not two hex digits", 0, 0)
        ELSE IF ~ChecksumAccepted(provided, computed)
        THEN NoChecksum("checksum mismatch", provided, computed)
        ELSE [ok |-> TRUE, err |-> "none", provided |-> provided,
              computed |-> computed, body |-> body_valid,
              discarded |-> after \o before]

\* body.split(','): the fields, one more than there are commas.  Field k
\* lies between the (k-1)st and the kth comma.
Split(s) ==
    LET commas == {i \in 1..Len(s) : s[i] = 44}
        Nth(k) == IF k = 0 THEN 0
                  ELSE IF k > Cardinality(commas) THEN Len(s) + 1
                  ELSE CHOOSE i \in commas :
                          Cardinality({j \in commas : j < i}) = k - 1
    IN  [k \in 1..(Cardinality(commas) + 1) |-> SubSeq(s, Nth(k - 1) + 1, Nth(k) - 1)]

RECURSIVE StripZeros(_)
StripZeros(ds) == IF ds # <<>> /\ Head(ds) = 48 THEN StripZeros(Tail(ds)) ELSE ds

RECURSIVE DecVal(_)
DecVal(ds) ==
    IF ds = <<>> THEN 0 ELSE 10 * DecVal(SubSeq(ds, 1, Len(ds) - 1)) + (ds[Len(ds)] - 48)

\* The digits of an unsigned number text: a leading '+' is allowed.
Unsigned(f) == IF f # <<>> /\ f[1] = 43 THEN Tail(f) ELSE f

\* str::parse::<u8 | u16 | u32>() is Ok: digits only, at least one, and a
\* value up to max (taken for texts of up to 9 significant digits).
ParsesUnsigned(f, max) ==
    LET ds == Unsigned(f)
    IN  /\ ds # <<>>
        /\ \A i \in 1..Len(ds) : IsDigit(ds[i])
        /\ Len(StripZeros(ds)) <= 9
        /\ DecVal(StripZeros(ds)) <= max

UnsignedVal(f) == DecVal(StripZeros(Unsigned(f)))

\* u32::from_str_radix(raw, 16) is Ok: hex digits only, at least one, at most
\* 8 significant ones.
ParsesHexU32(f) ==
    LET ds == Unsigned(f)
    IN  /\ ds # <<>>
        /\ \A i \in 1..Len(ds) : IsHexDigit(ds[i])
        /\ Len(StripZeros(ds)) <= 8

\* str::parse::<f32>() is Ok, for the decimal notation: an optional sign,
\* digits with at most one '.', at least one digit.  (Exponents, "inf" and
\* "nan", which Rust reads too, are in none of the lines of the model.)
ParsesF32(f) ==
    LET ds == IF f # <<>> /\ f[1] \in {43, 45} THEN Tail(f) ELSE f
    IN  /\ \E i \in 1..Len(ds) : IsDigit(ds[i])
        /\ \A i \in 1..Len(ds) : IsDigit(ds[i]) \/ ds[i] = 46
        /\ Cardinality({i \in 1..Len(ds) : ds[i] = 46}) <= 1

\* Days of the month, as NaiveDate::from_ymd_opt knows them.
DaysIn(y, m) ==
    IF m \in {4, 6, 9, 11} THEN 30
    ELSE IF m = 2
    THEN (IF y % 4 = 0 /\ (y % 100 # 0 \/ y % 400 = 0) THEN 29 ELSE 28)
    ELSE 31

\* parse_date: MMDDYY, the year being 2000 + YY, a date of the calendar.
ParsesDate(f) ==
    /\ Len(f) = 6
    /\ ParsesUnsigned(SubSeq(f, 1, 2), 99)
    /\ ParsesUnsigned(SubSeq(f, 3, 4), 99)
    /\ ParsesUnsigned(SubSeq(f, 5, 6), 99)
    /\ UnsignedVal(SubSeq(f, 1, 2)) \in 1..12
    /\ UnsignedVal(SubSeq(f, 3, 4))
          \in 1..DaysIn(2000 + UnsignedVal(SubSeq(f, 5, 6)), UnsignedVal(SubSeq(f, 1, 2)))

\* parse_time: hhmmss, a time NaiveTime::from_hms_opt takes.
ParsesTime(f) ==
    /\ Len(f) = 6
    /\ ParsesUnsigned(SubSeq(f, 1, 2), 23)
    /\ ParsesUnsigned(SubSeq(f, 3, 4), 59)
    /\ ParsesUnsigned(SubSeq(f, 5, 6), 59)

\* parse_config is Ok.
ParsesConfig(fields) ==
    /\ Len(fields) >= 7
    /\ ParsesUnsigned(fields[1], 255)
    /\ ParsesUnsigned(fields[3], 255)
    /\ ParsesUnsigned(fields[4], 65535)
    /\ ParsesF32(fields[5])
    /\ ParsesF32(fields[6])
    /\ ParsesUnsigned(fields[7], 255)

\* parse_sensor is Ok.
ParsesSensor(fields) ==
    /\ Len(fields) >= 13
    /\ ParsesDate(fields[1])
    /\ ParsesTime(fields[2])
    /\ ParsesHexU32(fields[3])
    /\ ParsesHexU32(fields[4])

\* parse_current is Ok.
ParsesCurrent(fields) ==
    /\ Len(fields) >= 18
    /\ ParsesDate(fields[1])
    /\ ParsesTime(fields[2])
    /\ ParsesUnsigned(fields[3], 65535)

\* is_invalid_field: empty after trimming, or starting with "-9".
IsInvalidField(raw) ==
    LET trimmed == Trim(raw)
    IN  trimmed = <<>> \/ (Len(trimmed) >= 2 /\ trimmed[1] = 45 /\ trimmed[2] = 57)

\* An Option of a number: <<>> is None, <<t>> is Some of the number that the
\* text t reads as.
\* parse_opt_f32: None for an invalid field, else raw.parse().ok().
ParseOptF32(raw) ==
    IF IsInvalidField(raw) THEN <<>> ELSE IF ParsesF32(raw) THEN <<raw>> ELSE <<>>

\* parse_opt_u8: None for an invalid field, else raw.parse().ok().
ParseOptU8(raw) ==
    IF IsInvalidField(raw) THEN <<>>
    ELSE IF ParsesUnsigned(raw, 255) THEN <<raw>> ELSE <<>>

\* The optional numeric fields of a payload, in the order of the sentence:
\* of each its text and the Option it is parsed to.
\* parse_sensor: fields[4..=12] are f32.  parse_current: fields[3..=8] are
\* f32 and fields[10..=17] are u8 (0-based, after the identifier).
OptionalFields(payload, fields) ==
    IF payload = "Sensor"
    THEN [k \in 1..9 |-> [text |-> fields[k + 4], val |-> ParseOptF32(fields[k + 4])]]
    ELSE IF payload = "Current"
    THEN [k \in 1..14 |->
            IF k <= 6
            THEN [text |-> fields[k + 3], val |-> ParseOptF32(fields[k + 3])]
            ELSE [text |-> fields[k + 4], val |-> ParseOptU8(fields[k + 4])]]
    ELSE <<>>

NoFrame ==
    [ok |-> FALSE, err |-> "none", raw |-> <<>>, payload |-> "none",
     checksum |-> [provided |-> 0, computed |-> 0, valid |-> FALSE],
     discarded |-> <<>>, opts |-> <<>>]

\* The Err of from_line: its message, and the bytes a mismatch carries.
FrameError(err, provided, computed) ==
    [NoFrame EXCEPT !.err = err, !.checksum.provided = provided,
                    !.checksum.computed = computed]

\* Frame::from_line(line): Err, or the Frame.
FromLine(line) ==
    LET raw == Trim(TrimEol(line))
        v == ValidateChecksum(raw)
        fields == Split(v.body)
        ident == fields[1]
        rest == Tail(fields)
        sentence ==
            IF ident = Tail(MarkerPNORI) THEN "Config"
            ELSE IF ident = Tail(MarkerPNORS) THEN "Sensor"
            ELSE IF ident = Tail(MarkerPNORC) THEN "Current"
            ELSE "none"
        parsed ==
            CASE sentence = "Config" -> ParsesConfig(rest)
              [] sentence = "Sensor" -> ParsesSensor(rest)
              [] sentence = "Current" -> ParsesCurrent(rest)
              [] OTHER -> FALSE
    IN  IF ~v.ok THEN FrameError(v.err, v.provided, v.computed)
        ELSE IF sentence = "none" THEN FrameError("unsupported sentence", 0, 0)
        ELSE IF ~parsed THEN FrameError("invalid payload", 0, 0)
        ELSE [ok |-> TRUE, err |-> "none", raw |-> raw, payload |-> sentence,
              checksum |-> [provided |-> v.provided, computed |-> v.computed,
                            valid |-> v.provided = v.computed],
              discarded |-> v.discarded,
              opts |-> OptionalFields(sentence, rest)]

(***************************************************************************)
(* The lines the parser is given: a sentence body, a checksum part written *)
(* in one of several forms, junk before it or not, a line end or not.      *)
(***************************************************************************)
\* $PNORC,010526,220800,4,abc,-0.80,-1.99,-1.33,0.98,305.2,C,300,88,67,78,13,17,10,18
BodyCurrentGarbled ==
    <<36, 80, 78, 79, 82, 67, 44, 48, 49, 48, 53, 50, 54, 44, 50, 50, 48,
      56, 48, 48, 44, 52, 44, 97, 98, 99, 44, 45, 48, 46, 56, 48, 44, 45,
      49, 46, 57, 57, 44, 45, 49, 46, 51, 51, 44, 48, 46, 57, 56, 44, 51,
      48, 53, 46, 50, 44, 67, 44, 51, 48, 48, 44, 56, 56, 44, 54, 55, 44,
      55, 56, 44, 49, 51, 44, 49, 55, 44, 49, 48, 44, 49, 56>>

\* $PNORS,010526,220800,00000000,3ED40002,,1532.0, ,-49.1,83.0,0.000,24.02,0,0
BodySensorBlanks ==
    <<36, 80, 78, 79, 82, 83, 44, 48, 49, 48, 53, 50, 54, 44, 50, 50, 48,
      56, 48, 48, 44, 48, 48, 48, 48, 48, 48, 48, 48, 44, 51, 69, 68, 52,
      48, 48, 48, 50, 44, 44, 49, 53, 51, 50, 46, 48, 44, 32, 44, 45, 52,
      57, 46, 49, 44, 56, 51, 46, 48, 44, 48, 46, 48, 48, 48, 44, 50, 52,
      46, 48, 50, 44, 48, 44, 48>>

\* $PNORI,4,Signature1000_100297,4,21,0.20,1.00,0,99
BodyLongConfig ==
    <<36, 80, 78, 79, 82, 73, 44, 52, 44, 83, 105, 103, 110, 97, 116, 117,
      114, 101, 49, 48, 48, 48, 95, 49, 48, 48, 50, 57, 55, 44, 52, 44, 50,
      49, 44, 48, 46, 50, 48, 44, 49, 46, 48, 48, 44, 48, 44, 57, 57>>


Bodies ==
    <<BodyConfig, BodySensor, BodyCurrent, BodyCurrentSentinels, BodyUnsupported,
      BodyShortConfig, BodyBadMonth, BodyBeamsOverflow, BodyNoDollar,
      BodyCurrentGarbled, BodySensorBlanks, BodyLongConfig>>

\* The bodies that are well-formed $PNORI, $PNORS or $PNORC sentences.
WellFormedBodies == 1..4

ChecksumForms ==
    {"upper", "lower", "wrong", "one digit", "no star", "junk after",
     "junk before", "spaced"}

\* The character of a hex digit value.
HexChar(v, upper) == IF v < 10 THEN 48 + v ELSE IF upper THEN 55 + v ELSE 87 + v

Hex2(x, upper) == <<HexChar(x \div 16, upper), HexChar(x % 16, upper)>>

\* The XOR of the bytes of a sentence body after its leading '$'.
SentenceXor(b) == XorFold(IF b[1] = 36 THEN Tail(b) ELSE b)

\* The byte that a checksum x is changed to; alt = 0 leaves it, an odd alt
\* changes the low hex digit and an even one only the high hex digit.
Altered(x, alt) ==
    IF alt % 2 = 1 THEN (x + ((alt + 1) \div 2)) % 256
    ELSE (x + (16 * (alt \div 2))) % 256

ChecksumText(form, x, alt) ==
    CASE form = "upper" -> <<42>> \o Hex2(x, TRUE)
      [] form = "lower" -> <<42>> \o Hex2(x, FALSE)
      [] form = "wrong" -> <<42>> \o Hex2(Altered(x, alt), TRUE)
      [] form = "one digit" -> <<42, HexChar(x % 16, TRUE)>>
      [] form = "no star" -> <<>>
      [] form = "junk after" -> <<42>> \o Hex2(x, TRUE) \o SuffixJunk
      [] form = "junk before" -> <<42, 122, 122>> \o Hex2(x, TRUE)
      [] form = "spaced" -> <<42, HexChar(x \div 16, TRUE), 32, HexChar(x % 16, TRUE)>>

\* alt tells, for the form "wrong", what the checksum is changed by.
Inputs ==
    {in \in [body : 1..Len(Bodies), cs : ChecksumForms, junk : BOOLEAN,
             eol : BOOLEAN, alt : 0..MaxAlter] :
        IF in.cs = "wrong" THEN Altered(1, in.alt) # 1 ELSE in.alt = 0}

NoInput == [body |-> 0, cs |-> "no star", junk |-> FALSE, eol |-> FALSE, alt |-> 0]

\* The bytes of the line an input stands for.
LineOf(in) ==
    IF in.body = 0 THEN <<>>
    ELSE (IF in.junk THEN PrefixJunk ELSE <<>>)
            \o Bodies[in.body]
            \o ChecksumText(in.cs, SentenceXor(Bodies[in.body]), in.alt)
            \o (IF in.eol THEN <<13, 10>> ELSE <<>>)

\* A line arrives.
FReceive(in) ==
    /\ fPc \in {"idle", "done"}
    /\ fIn' = in
    /\ fOut' = NoFrame
    /\ fPc' = "parse"
    /\ UNCHANGED <<pvars, rvars, hvars, lvars, mvars, svars, avars, bvars, kvars>>

\* Frame::from_line on it.
FFromLine ==
    /\ fPc = "parse"
    /\ fOut' = FromLine(LineOf(fIn))
    /\ fPc' = "done"
    /\ UNCHANGED fIn
    /\ UNCHANGED <<pvars, rvars, hvars, lvars, mvars, svars, avars, bvars, kvars>>

FInit ==
    /\ fIn = NoInput
    /\ fOut = NoFrame
    /\ fPc = "idle"

FNext ==
    \/ \E in \in Inputs : FReceive(in)
    \/ FFromLine

(***************************************************************************)
(* Recording pipeline (src/src/service.rs, Service::run_recording)         *)
(*                                                                         *)
(* worker_future is not spawned: run_recording polls it inside             *)
(*   tokio::select! { res = worker_future => res, _ = shutdown_signal => } *)
(* so when ctrl-c arrives shutdown_signal completes and the worker future  *)
(* is dropped at the await it is suspended on.  shutdown_tx.send is called *)
(* only by shutdown_signal (which ends that select in the same poll) and   *)
(* after the select, so the worker's own shutdown_rx.changed() branch is   *)
(* never taken while the worker is polled.                                 *)
(*                                                                         *)
(* rPc names the next thing the worker does: "connect", "select" (waiting  *)
(* in the loop's select! for next_line), "backup", "handoff", "parse",     *)
(* "persist", "sleep".  A destination step is one action: the whole        *)
(* append call of that sink.                                               *)
(***************************************************************************)
Steps == <<"backup", "handoff", "parse", "persist">>

\* The position after a step, with the parse done before the handoff write.
AfterStepParseBeforeHandoff(step, ok) ==
    CASE step = "backup" -> "parse"
      [] step = "parse" -> "handoff"
      [] step = "handoff" -> IF ok THEN "persist" ELSE "select"
      [] step = "persist" -> "select"

\* Lines 132-161: backup.append, data_process.append, Frame::from_line and,
\* for a parsed frame only, persistence.append; then back to the select!.
\* An Err of a sink is logged and the next statement runs.
AfterStep(step, ok) ==
    CASE step = "backup" -> "handoff"
      [] step = "handoff" -> "parse"
      [] step = "parse" -> IF ok THEN "persist" ELSE "select"
      [] step = "persist" -> "select"

\* A sink's Err propagated with `?` out of the worker future.
RunAfterPropagating(step, ok) ==
    IF ok \/ step = "parse" THEN "running" ELSE "failed"

\* Lines 133-150: every Err is consumed by `if let Err(err)` / `match`.
RunAfter(step, ok) == "running"

\* The awaits of the worker future: where it can be suspended, hence dropped.
\* Frame::from_line is synchronous.
AwaitPoints == {"connect", "select", "backup", "handoff", "persist", "sleep"}

\* Line 118: SerialPort::connect(...).await? .
RConnect(ok) ==
    /\ rRun = "running" /\ rPc = "connect"
    /\ IF ok THEN rPc' = "select" /\ rRun' = rRun
             ELSE rRun' = "failed" /\ rPc' = rPc
    /\ UNCHANGED <<rLine, rLog, rRaw>>
    /\ UNCHANGED <<pvars, fvars, hvars, lvars, mvars, svars, avars, bvars, kvars>>

\* What read_line can put in the buffer when it reads at least one byte:
\* "\n", "\r\n", a sentence with its line end, and a sentence that the
\* parser rejects, cut short by the end of the input.
ReadBytes ==
    {<<10>>, <<13, 10>>,
     LineOf([body |-> 1, cs |-> "upper", junk |-> FALSE, eol |-> TRUE, alt |-> 0]),
     LineOf([body |-> 5, cs |-> "upper", junk |-> FALSE, eol |-> FALSE, alt |-> 0])}

\* SerialPort::next_line for a read of at least one byte: the buffer without
\* its trailing '\r' and '\n', whatever is left of it.
NextLine(bytes) == TrimEol(bytes)

\* Lines 125-127: next_line returned Ok(Some(raw)).
RReadLine ==
    /\ rRun = "running" /\ rPc = "select"
    /\ rLine < MaxLines
    /\ rLine' = rLine + 1
    /\ \E bytes \in ReadBytes : rRaw' = Append(rRaw, NextLine(bytes))
    /\ rPc' = "backup"
    /\ UNCHANGED <<rRun, rLog>>
    /\ UNCHANGED <<pvars, fvars, hvars, lvars, mvars, svars, avars, bvars, kvars>>

\* What next_line gives when it gives no line: Ok(None) for a zero-byte read
\* (end of file, closed port), Err for a failed read.
NoLine == {"none", "err"}

\* A read error propagated with `?` out of the worker future.
RunAfterReadPropagating(res) == IF res = "err" THEN "failed" ELSE "running"

\* Lines 163-174: both arms log, sleep and stay in the loop.
RunAfterRead(res) == "running"

\* Lines 163-174: next_line returned Ok(None) or Err: sleep 1s.
RReadNothing ==
    /\ rRun = "running" /\ rPc = "select"
    /\ \E res \in NoLine : rRun' = RunAfterRead(res)
    /\ rPc' = "sleep"
    /\ UNCHANGED <<rLine, rLog, rRaw>>
    /\ UNCHANGED <<pvars, fvars, hvars, lvars, mvars, svars, avars, bvars, kvars>>

\* The sleep is over: the loop's next iteration.
RSleepDone ==
    /\ rRun = "running" /\ rPc = "sleep"
    /\ rPc' = "select"
    /\ UNCHANGED <<rRun, rLine, rLog, rRaw>>
    /\ UNCHANGED <<pvars, fvars, hvars, lvars, mvars, svars, avars, bvars, kvars>>

\* One destination step of the current line, succeeding or failing.
RStep(ok) ==
    /\ rRun = "running"
    /\ rPc \in {"backup", "handoff", "parse", "persist"}
    /\ rPc = "parse" => ok = FromLine(rRaw[rLine]).ok
    /\ rLog' = Append(rLog, [line |-> rLine, step |-> rPc, ok |-> ok])
    /\ rPc' = AfterStep(rPc, ok)
    /\ rRun' = RunAfter(rPc, ok)
    /\ UNCHANGED <<rLine, rRaw>>
    /\ UNCHANGED <<pvars, fvars, hvars, lvars, mvars, svars, avars, bvars, kvars>>

\* Lines 183-196: ctrl-c completes shutdown_signal; the select! returns and
\* drops worker_future where it is suspended.
RCtrlC ==
    /\ rRun = "running"
    /\ rPc \in AwaitPoints
    /\ rRun' = "cancelled"
    /\ UNCHANGED <<rPc, rLine, rLog, rRaw>>
    /\ UNCHANGED <<pvars, fvars, hvars, lvars, mvars, svars, avars, bvars, kvars>>

RInit ==
    /\ rPc = "connect"
    /\ rRun = "running"
    /\ rLine = 0
    /\ rLog = <<>>
    /\ rRaw = <<>>

RNext ==
    \/ \E ok \in BOOLEAN : RConnect(ok)
    \/ RReadLine
    \/ RReadNothing
    \/ RSleepDone
    \/ \E ok \in BOOLEAN : RStep(ok)
    \/ RCtrlC

(***************************************************************************)
(* The handoff directory (data_process_folder)                             *)
(*                                                                         *)
(* A file name is [f, s]: f is the date of "<date>.raw" and s the suffixes *)
(* that follow it, "w" for ".writing", "p" for ".processing", "f" for      *)
(* ".failed".  A line of a raw file is the index of the append call that   *)
(* wrote it.  mtime ages are whole seconds of the clock `now`.             *)
(***************************************************************************)
\* file_stability_seconds, as the repository's tests configure it.
StableSecs == 1

\* Semaphore::new(4): the worker permits of the processing manager.
Permits == 4

NoName == [f |-> 0, s |-> <<>>]

Raw(f) == [f |-> f, s |-> <<>>]

\* format!("{}.writing", file_name)
Marker(n) == [f |-> n.f, s |-> Append(n.s, "w")]

\* format!("{}.processing", file_name)
Processing(n) == [f |-> n.f, s |-> Append(n.s, "p")]

\* format!("{}.failed", name)
Failed(n) == [f |-> n.f, s |-> Append(n.s, "f")]

\* file_name.ends_with(".writing") and the like.
EndsWith(n, x) == Len(n.s) > 0 /\ n.s[Len(n.s)] = x

Has(dir, n) == \E e \in dir : e.name = n

Ent(dir, n) == CHOOSE e \in dir : e.name = n

Remove(dir, n) == {e \in dir : e.name # n}

\* A file written or renamed onto a name replaces what was there.
Put(dir, e) == Remove(dir, e.name) \cup {e}

NamesIn(dir) == {e.name : e \in dir}

\* SystemTime::now().duration_since(mtime)
Age(dir, n) == now - Ent(dir, n).mtime

\* The order of the suffix texts "failed" < "processing" < "writing".
SfxRank(x) == CASE x = "f" -> 1 [] x = "p" -> 2 [] x = "w" -> 3

RECURSIVE SfxLess(_, _)
SfxLess(a, b) ==
    IF a = <<>> THEN b # <<>>
    ELSE IF b = <<>> THEN FALSE
    ELSE IF Head(a) # Head(b) THEN SfxRank(Head(a)) < SfxRank(Head(b))
    ELSE SfxLess(Tail(a), Tail(b))

\* The order of file names as strings: the date first, then what follows.
NameLess(a, b) == a.f < b.f \/ (a.f = b.f /\ SfxLess(a.s, b.s))

\* files.sort_by_key(file_name)
RECURSIVE SortNames(_)
SortNames(S) ==
    IF S = {} THEN <<>>
    ELSE LET m == CHOOSE m \in S : \A o \in S \ {m} : NameLess(m, o)
         IN  <<m>> \o SortNames(S \ {m})

\* fs::rename(src, dst) inside the handoff directory: the entry keeps its
\* mtime and content and replaces a file already at dst.
RenameIn(dir, src, dst) ==
    Put(Remove(dir, src), [Ent(dir, src) EXCEPT !.name = dst])

\* fs::rename(path, processed_dir/dst) (or copy + remove): what the processed
\* directory holds afterwards.
MovedInto(dir, pd, src, dst) ==
    Put(pd, [name |-> dst, lines |-> Ent(dir, src).lines])

(***************************************************************************)
(* The per-append sink (src/src/backup.rs, Backup::append with per_append) *)
(* and the clock.                                                          *)
(***************************************************************************)
\* Lines 102-116: open <date>.raw with create+append, write line and "\n",
\* flush.  The line is the wN+1st that the sink appends; as in the persistence
\* sink it is written [id, date], d being the date of the sent_at of the frame
\* the line parses to (0: a Config sentence, which has none).
WAppendData(d) ==
    /\ wPc = "idle"
    /\ wN < MaxWrites
    /\ LET n == Raw(wDate)
           old == IF Has(hdir, n) THEN Ent(hdir, n).lines ELSE <<>>
           line == [id |-> wN + 1, date |-> d]
       IN  hdir' = Put(hdir, [name |-> n, mtime |-> now, lines |-> Append(old, line)])
    /\ wN' = wN + 1
    /\ wOpen' = {Raw(wDate)}
    /\ wPc' = "marker"
    /\ UNCHANGED <<now, pdir, replays, wDate>>
    /\ UNCHANGED <<pvars, fvars, rvars, lvars, mvars, svars, avars, bvars, kvars>>

\* The handles of a sink that kept its file in self.current_file, as the
\* rolling mode of Backup does.
HandlesKept(open) == open

\* Line 132: `file` and `marker` are locals and are dropped at the return; the
\* per_append branch never assigns self.current_file.
HandlesAfterReturn(open) == {}

\* The text of the marker: format!("{}", Utc::now().timestamp()).  It is not
\* a sentence: it has no id and no date.
MarkerText == [ts |-> now]

\* Lines 118-132: rewrite <date>.raw.writing (create, truncate) with the
\* current Unix timestamp, and return Ok.
WMarker ==
    /\ wPc = "marker"
    /\ hdir' = Put(hdir, [name |-> Marker(Raw(wDate)), mtime |-> now,
                          lines |-> <<MarkerText>>])
    /\ wOpen' = HandlesAfterReturn(wOpen \cup {Marker(Raw(wDate))})
    /\ wPc' = "idle"
    /\ UNCHANGED <<now, pdir, replays, wDate, wN>>
    /\ UNCHANGED <<pvars, fvars, rvars, lvars, mvars, svars, avars, bvars, kvars>>

\* The date of the recorder's Utc::now() moves on between two appends.
WNewDay ==
    /\ wPc = "idle"
    /\ wDate < NFiles
    /\ wDate' = wDate + 1
    /\ UNCHANGED <<now, hdir, pdir, replays, wPc, wN, wOpen>>
    /\ UNCHANGED <<pvars, fvars, rvars, lvars, mvars, svars, avars, bvars, kvars>>

\* The directory with only the marker of the day being written removed.
WithoutCurrentMarker(dir) == Remove(dir, Marker(Raw(wDate)))

\* service.rs lines 206-215: read_dir, and remove_file on every entry whose
\* name ends in ".writing".
WithoutMarkers(dir) == {e \in dir : ~EndsWith(e.name, "w")}

\* service.rs lines 183-196: ctrl-c completes shutdown_signal and the select!
\* drops worker_future, inside Backup::append or between two lines: the sink
\* writes nothing from here on.
WCtrlC ==
    /\ wPc \in {"idle", "marker"}
    /\ wPc' = "dropped"
    /\ wOpen' = {}
    /\ UNCHANGED <<now, hdir, pdir, replays, wDate, wN>>
    /\ UNCHANGED <<pvars, fvars, rvars, lvars, mvars, svars, avars, bvars, kvars>>

\* service.rs lines 198-223: the health and heartbeat tasks are joined, the
\* markers are removed and run_recording returns.
WCleanupReturn ==
    /\ wPc = "dropped"
    /\ hdir' = WithoutMarkers(hdir)
    /\ wPc' = "returned"
    /\ UNCHANGED <<now, pdir, replays, wDate, wN, wOpen>>
    /\ UNCHANGED <<pvars, fvars, rvars, lvars, mvars, svars, avars, bvars, kvars>>

\* service.rs lines 202-221: a recorder that shuts down removes every
\* *.writing file of the handoff directory (the supervisor may start a new
\* recorder afterwards, which appends to the same directory).
WCleanupMarkers ==
    /\ wPc = "idle"
    /\ \E e \in hdir : EndsWith(e.name, "w")
    /\ hdir' = WithoutMarkers(hdir)
    /\ UNCHANGED <<now, pdir, replays, wPc, wDate, wN, wOpen>>
    /\ UNCHANGED <<pvars, fvars, rvars, lvars, mvars, svars, avars, bvars, kvars>>

\* A second passes, up to the time max.
TickTo(max) ==
    /\ now < max
    /\ now' = now + 1
    /\ UNCHANGED <<hdir, pdir, replays, wPc, wDate, wN, wOpen>>
    /\ UNCHANGED <<pvars, fvars, rvars, lvars, mvars, svars, avars, bvars, kvars>>

Tick == TickTo(MaxTime)

(***************************************************************************)
(* run_processing_loop (src/src/processing.rs)                             *)
(* Every await of the loop is a step of its own: the recorder is another   *)
(* task or process and runs between them.                                  *)
(***************************************************************************)
\* A receiver that never sees the value that was sent.
HasChangedNever(sent) == FALSE

\* Lines 29, 60: shutdown.has_changed().unwrap_or(false).  The loop never
\* marks the value as seen, and its callers keep the sender until the loop
\* has returned, so it is true from the send on.
HasChanged(sent) == sent

\* shutdown_tx.send(()) of the loop's owner (service.rs:268).
ShutdownSend ==
    /\ ~lShutdown
    /\ lShutdown' = TRUE
    /\ UNCHANGED <<lPc, lQueue, lCur, lAnyWork>>
    /\ UNCHANGED <<hvars, pvars, fvars, rvars, mvars, svars, avars, bvars, kvars>>

\* Lines 28-32, 34-58: the shutdown check at the top of the loop, which ends
\* it with Ok(()); else read_dir, keep the regular files, sort them by file
\* name.
LScan ==
    /\ lPc = "idle"
    /\ IF HasChanged(lShutdown)
       THEN /\ lPc' = "returned"
            /\ UNCHANGED <<lQueue, lAnyWork>>
       ELSE /\ lQueue' = SortNames(NamesIn(hdir))
            /\ lAnyWork' = FALSE
            /\ lPc' = "next"
    /\ UNCHANGED <<lShutdown, lCur, hvars, pvars, fvars, rvars, mvars, svars, avars, bvars, kvars>>

\* Lines 59-63, 94-96: the next file of the cycle, unless the shutdown check
\* breaks out of the for loop; after the last one, rescan at
\* once if any file was processed, else sleep SCAN_INTERVAL_SECS.
LNext ==
    /\ lPc = "next"
    /\ IF lQueue = <<>> \/ HasChanged(lShutdown)
       THEN /\ lPc' = IF lAnyWork THEN "idle" ELSE "sleep"
            /\ UNCHANGED <<lQueue, lCur>>
       ELSE /\ lCur' = Head(lQueue)
            /\ lQueue' = Tail(lQueue)
            /\ lPc' = "statFile"
    /\ UNCHANGED <<lShutdown, lAnyWork, hvars, pvars, fvars, rvars, mvars, svars, avars, bvars, kvars>>

LSleepDone ==
    /\ lPc = "sleep"
    /\ lPc' = "idle"
    /\ UNCHANGED <<lShutdown, lQueue, lCur, lAnyWork, hvars, pvars, fvars, rvars, mvars, svars, avars, bvars, kvars>>

\* is_stable, lines 104-111: the file's own mtime.  A file that is gone is
\* an Err ("failed to stat file").
LStatFile ==
    /\ lPc = "statFile"
    /\ lPc' = IF Has(hdir, lCur) /\ ~(Age(hdir, lCur) < StableSecs)
              THEN "statMarker" ELSE "next"
    /\ UNCHANGED <<lShutdown, lQueue, lCur, lAnyWork, hvars, pvars, fvars, rvars, mvars, svars, avars, bvars, kvars>>

\* is_stable, lines 113-137: the marker <name>.writing and its mtime.
MarkerAllows(dir, n) ==
    ~Has(dir, Marker(n)) \/ ~(Age(dir, Marker(n)) < StableSecs)

LStatMarker ==
    /\ lPc = "statMarker"
    /\ IF MarkerAllows(hdir, lCur)
       THEN lPc' = "replay" /\ lAnyWork' = TRUE
       ELSE lPc' = "next" /\ lAnyWork' = lAnyWork
    /\ UNCHANGED <<lShutdown, lQueue, lCur, hvars, pvars, fvars, rvars, mvars, svars, avars, bvars, kvars>>

\* Line 70: simulator::replay_sample(&file, &config).  It returns Err when the
\* persistence directory cannot be prepared or the file cannot be read (ok =
\* FALSE stands for such an I/O error), else Ok whatever the lines hold.
LReplay(ok) ==
    /\ lPc = "replay"
    /\ IF ok /\ Has(hdir, lCur)
       THEN /\ replays' = replays (+) SetToBag({[name |-> lCur, lines |-> Ent(hdir, lCur).lines]})
            /\ lPc' = "move"
       ELSE /\ replays' = replays
            /\ lPc' = "moveFailed"
    /\ UNCHANGED <<now, hdir, pdir, wPc, wDate, wN, wOpen>>
    /\ UNCHANGED <<lShutdown, lQueue, lCur, lAnyWork, pvars, fvars, rvars, mvars, svars, avars, bvars, kvars>>

\* Lines 72-74, move_to_processed: to processed_dir/<name>; an Err (the file
\* is gone) is logged.
LMove ==
    /\ lPc = "move"
    /\ IF Has(hdir, lCur)
       THEN /\ pdir' = MovedInto(hdir, pdir, lCur, lCur)
            /\ hdir' = Remove(hdir, lCur)
       ELSE UNCHANGED <<hdir, pdir>>
    /\ lPc' = "next"
    /\ UNCHANGED <<now, replays, wPc, wDate, wN, wOpen>>
    /\ UNCHANGED <<lShutdown, lQueue, lCur, lAnyWork, pvars, fvars, rvars, mvars, svars, avars, bvars, kvars>>

\* Lines 76-82, move_failed: to processed_dir/<name>.failed.
LMoveFailed ==
    /\ lPc = "moveFailed"
    /\ IF Has(hdir, lCur)
       THEN /\ pdir' = MovedInto(hdir, pdir, lCur, Failed(lCur))
            /\ hdir' = Remove(hdir, lCur)
       ELSE UNCHANGED <<hdir, pdir>>
    /\ lPc' = "next"
    /\ UNCHANGED <<now, replays, wPc, wDate, wN, wOpen>>
    /\ UNCHANGED <<lShutdown, lQueue, lCur, lAnyWork, pvars, fvars, rvars, mvars, svars, avars, bvars, kvars>>

(***************************************************************************)
(* The processing manager (src/src/bin/adcp-proc-manager.rs)               *)
(* scan_and_process runs on every 2 s tick; each stable file is renamed to *)
(* <name>.processing and given to a spawned task that runs the worker      *)
(* process (adcp-proc-worker: replay_sample) and then moves the file.      *)
(* read_dir is taken as a snapshot of the directory at the scan's start.   *)
(***************************************************************************)
\* Lines 84-86: the names the scan skips.
SkippedName(n) == EndsWith(n, "w") \/ EndsWith(n, "f")

\* Lines 59-62, 75-76: the tick; read_dir and `now`.  The entries that the
\* scan passes over for their name alone are left out of the snapshot.
MTick ==
    /\ mPc = "wait"
    /\ mQueue' = {n \in NamesIn(hdir) : ~SkippedName(n) /\ Len(n.s) < MaxSfx}
    /\ mNow' = now
    /\ mPc' = "next"
    /\ workers' = {[w EXCEPT !.cyc = FALSE] : w \in workers}
    /\ UNCHANGED <<mCur, hvars, pvars, fvars, rvars, lvars, svars, avars, bvars, kvars>>

\* Lines 78-82: the next directory entry, in the directory's own order; an
\* entry that is no longer a file is passed over.
MNext ==
    /\ mPc = "next"
    /\ IF mQueue = {}
       THEN mPc' = "wait" /\ UNCHANGED <<mQueue, mCur>>
       ELSE \E n \in mQueue :
              /\ mQueue' = mQueue \ {n}
              /\ IF Has(hdir, n)
                 THEN mCur' = n /\ mPc' = "checkMarker"
                 ELSE mCur' = mCur /\ mPc' = "next"
    /\ UNCHANGED <<mNow, workers, hvars, pvars, fvars, rvars, lvars, svars, avars, bvars, kvars>>

\* Lines 88-91: writing_marker.exists().
MCheckMarker ==
    /\ mPc = "checkMarker"
    /\ mPc' = IF Has(hdir, Marker(mCur)) THEN "next" ELSE "stat"
    /\ UNCHANGED <<mQueue, mCur, mNow, workers, hvars, pvars, fvars, rvars, lvars, svars, avars, bvars, kvars>>

\* Lines 93-96: fs::metadata(&path)? ends the scan with an Err when the file
\* is gone; now.duration_since(mtime) is an Err when mtime is after `now`.
MStat ==
    /\ mPc = "stat"
    /\ IF ~Has(hdir, mCur)
       THEN mPc' = "wait"
       ELSE LET mtime == Ent(hdir, mCur).mtime
            IN  mPc' = IF mtime <= mNow /\ mNow - mtime >= StableSecs
                       THEN "rename" ELSE "next"
    /\ UNCHANGED <<mQueue, mCur, mNow, workers, hvars, pvars, fvars, rvars, lvars, svars, avars, bvars, kvars>>

\* A semaphore that always has a permit to give.
PermitAlways(ws) == TRUE

\* Lines 54, 98-101: semaphore.clone().acquire_owned().await completes when
\* fewer than 4 tasks hold a permit; ws are the tasks that hold one.
PermitFree(ws) == Cardinality(ws) < Permits

\* Lines 98-162: once semaphore.acquire_owned().await has given a permit,
\* rename to <name>.processing and spawn the task; a failed rename skips the
\* file (and drops the permit).
MRename ==
    /\ mPc = "rename"
    /\ PermitFree(workers)
    /\ IF Has(hdir, mCur)
       THEN /\ hdir' = RenameIn(hdir, mCur, Processing(mCur))
            /\ workers' = workers \cup
                 {[input |-> Processing(mCur), fname |-> mCur, st |-> "spawned",
                   cyc |-> TRUE]}
       ELSE UNCHANGED <<hdir, workers>>
    /\ mPc' = "next"
    /\ UNCHANGED <<now, pdir, replays, wPc, wDate, wN, wOpen>>
    /\ UNCHANGED <<mQueue, mCur, mNow, pvars, fvars, rvars, lvars, svars, avars, bvars, kvars>>

\* Lines 136-142 and adcp-proc-worker.rs: the worker process replays its
\* input; it exits with failure when replay_sample returns Err (ok = FALSE:
\* an I/O error; or the input is gone) or when it cannot be spawned.
WkReplay(w, ok) ==
    /\ w \in workers /\ w.st = "spawned"
    /\ IF ok /\ Has(hdir, w.input)
       THEN /\ replays' = replays (+) SetToBag({[name |-> w.input, lines |-> Ent(hdir, w.input).lines]})
            /\ workers' = (workers \ {w}) \cup {[w EXCEPT !.st = "ok"]}
       ELSE /\ replays' = replays
            /\ workers' = (workers \ {w}) \cup {[w EXCEPT !.st = "fail"]}
    /\ UNCHANGED <<now, hdir, pdir, wPc, wDate, wN, wOpen>>
    /\ UNCHANGED <<mPc, mQueue, mCur, mNow, pvars, fvars, rvars, lvars, svars, avars, bvars, kvars>>

\* Lines 144-161: move the input to processed/<name> or processed/<name>.failed
\* (`let _ = fs::rename`: an Err is dropped), then release the permit.
WkDone(w) ==
    /\ w \in workers /\ w.st # "spawned"
    /\ IF Has(hdir, w.input)
       THEN /\ pdir' = MovedInto(hdir, pdir, w.input,
                                 IF w.st = "ok" THEN w.fname ELSE Failed(w.fname))
            /\ hdir' = Remove(hdir, w.input)
       ELSE UNCHANGED <<hdir, pdir>>
    /\ workers' = workers \ {w}
    /\ UNCHANGED <<now, replays, wPc, wDate, wN, wOpen>>
    /\ UNCHANGED <<mPc, mQueue, mCur, mNow, pvars, fvars, rvars, lvars, svars, avars, bvars, kvars>>

\* The tick of a manager whose workers have all finished within the 2 s
\* interval.
MTickWorkersDone ==
    /\ workers = {}
    /\ MTick

\* The manager process dies, at any point of its scan or with workers under
\* way, and its tasks and worker processes with it; nothing but the handoff
\* directory is left to the manager that is started next.
MCrash ==
    /\ mPc # "wait" \/ workers # {}
    /\ mPc' = "wait"
    /\ mQueue' = {}
    /\ mCur' = NoName
    /\ workers' = {}
    /\ UNCHANGED <<mNow, hvars, pvars, fvars, rvars, lvars, svars, avars, bvars, kvars>>

\* The processors start on a handoff directory that holds dir.
HInitOn(dir) ==
    /\ now = 0
    /\ hdir = dir
    /\ pdir = {}
    /\ replays = EmptyBag
    /\ wPc = "idle"
    /\ wDate = 1
    /\ wN = 0
    /\ wOpen = {}
    /\ lPc = "idle"
    /\ lQueue = <<>>
    /\ lCur = NoName
    /\ lAnyWork = FALSE
    /\ lShutdown = FALSE
    /\ mPc = "wait"
    /\ mQueue = {}
    /\ mCur = NoName
    /\ mNow = 0
    /\ workers = {}

\* The handoff directory is empty when the recorder and the processors start.
HInit == HInitOn({})

\* The recorder within one day, and the clock, which run beside either
\* processor.
WNext ==
    \/ \E d \in 0..NDates : WAppendData(d)
    \/ WMarker
    \/ WCleanupMarkers
    \/ Tick

\* The processing loop beside a recorder whose days change.
LNextAll ==
    \/ WNext
    \/ WNewDay
    \/ LScan
    \/ LNext
    \/ LSleepDone
    \/ LStatFile
    \/ LStatMarker
    \/ \E ok \in BOOLEAN : LReplay(ok)
    \/ LMove
    \/ LMoveFailed

\* The processing manager and its workers beside a recorder that stays within
\* one day.
MNextAll ==
    \/ WNext
    \/ MTick
    \/ MNext
    \/ MCheckMarker
    \/ MStat
    \/ MRename
    \/ \E w \in workers, ok \in BOOLEAN : WkReplay(w, ok)
    \/ \E w \in workers : WkDone(w)

(***************************************************************************)
(* The supervisor (src/src/service.rs, Service::run_orchestrator)          *)
(*                                                                         *)
(* The state begins when the three children have been spawned and the      *)
(* watchdog task has been created.  The watchdog runs the three            *)
(* check_and_restart futures of one round inside tokio::join!: they take   *)
(* turns at their awaits.  A step of the model runs from one await that    *)
(* can suspend to the next; child_arc.lock().await is not one of them,     *)
(* since run_orchestrator locks the slots only when the watchdog has       *)
(* ended.  watchdog.abort() followed by watchdog.await ends the watchdog   *)
(* at the await it is suspended on.                                        *)
(***************************************************************************)
\* The children, in the order run_orchestrator spawns and kills them.
Kids == <<"sim", "rec", "proc">>

KidSet == {Kids[i] : i \in 1..Len(Kids)}

\* Line 364: the least staleness threshold, in seconds.
MinThresholdSecs == 10

\* u64::saturating_mul(3) in a number type whose largest value is MaxSecs.
SaturatingMul3(secs) == IF 3 * secs > MaxSecs THEN MaxSecs ELSE 3 * secs

\* A threshold without the floor of 10 seconds.
ThresholdNoFloor(secs) == SaturatingMul3(secs)

\* Line 364: max(10, file_stability_seconds.saturating_mul(3)).
ThresholdOf(secs) ==
    IF SaturatingMul3(secs) > MinThresholdSecs THEN SaturatingMul3(secs)
    ELSE MinThresholdSecs

\* The threshold of the supervisor whose children the model follows.
ThresholdSecs == ThresholdOf(StableSecs)

\* A watchdog that takes only a missing heartbeat file for stale.
StaleOnlyMissing(h, at) == h = {}

\* Lines 377-383: `stale` for a heartbeat file with mtime h (or no file, or
\* no readable mtime) against the watchdog's `now`;
\* duration_since(m).unwrap_or_default() is zero for an mtime after `now`.
StaleFor(h, at, threshold) ==
    \/ h = {}
    \/ \E m \in h : (IF at >= m THEN at - m ELSE 0) > threshold

Stale(h, at) == StaleFor(h, at, ThresholdSecs)

\* Lines 366-370: the ticker fires (at once the first time); `now` is taken.
WdTick ==
    /\ wdPc = "tick"
    /\ wdNow' = sClock
    /\ cPc' = [c \in KidSet |-> "meta"]
    /\ wdPc' = "checking"
    /\ UNCHANGED <<sClock, hb, slot, alive, nSpawned, born, nBeats, oPc>>
    /\ UNCHANGED <<pvars, fvars, rvars, hvars, lvars, mvars, avars, bvars, kvars>>

\* Lines 377-384: fs::metadata(&hb) and the decision.
CheckMeta(c) ==
    /\ wdPc = "checking" /\ cPc[c] = "meta"
    /\ cPc' = [cPc EXCEPT ![c] = IF Stale(hb[c], wdNow) THEN "kill" ELSE "done"]
    /\ UNCHANGED <<sClock, hb, slot, alive, nSpawned, born, nBeats, wdPc, wdNow, oPc>>
    /\ UNCHANGED <<pvars, fvars, rvars, hvars, lvars, mvars, avars, bvars, kvars>>

\* Lines 387-389: take the child out of its slot; c.kill() sends the kill
\* signal and waits for the exit.
CheckKill(c) ==
    /\ wdPc = "checking" /\ cPc[c] = "kill"
    /\ alive' = alive \ {slot[c]}
    /\ slot' = [slot EXCEPT ![c] = 0]
    /\ cPc' = [cPc EXCEPT ![c] = "reap"]
    /\ UNCHANGED <<sClock, hb, nSpawned, born, nBeats, wdPc, wdNow, oPc>>
    /\ UNCHANGED <<pvars, fvars, rvars, hvars, lvars, mvars, avars, bvars, kvars>>

\* Lines 389-400: the wait is over; Command::spawn, and on Ok the new child
\* is put into the slot.
CheckRespawn(c, ok) ==
    /\ wdPc = "checking" /\ cPc[c] = "reap"
    /\ IF ok
       THEN /\ nSpawned < Len(Kids) + MaxRespawns
            /\ nSpawned' = nSpawned + 1
            /\ born' = Append(born, sClock)
            /\ slot' = [slot EXCEPT ![c] = nSpawned + 1]
            /\ alive' = alive \cup {nSpawned + 1}
       ELSE UNCHANGED <<nSpawned, born, slot, alive>>
    /\ cPc' = [cPc EXCEPT ![c] = "done"]
    /\ UNCHANGED <<sClock, hb, nBeats, wdPc, wdNow, oPc>>
    /\ UNCHANGED <<pvars, fvars, rvars, hvars, lvars, mvars, avars, bvars, kvars>>

\* Lines 406-411: join! has all three results; back to the ticker.
WdRoundDone ==
    /\ wdPc = "checking"
    /\ \A c \in KidSet : cPc[c] = "done"
    /\ wdPc' = "tick"
    /\ cPc' = [c \in KidSet |-> "idle"]
    /\ UNCHANGED <<sClock, hb, slot, alive, nSpawned, born, nBeats, wdNow, oPc>>
    /\ UNCHANGED <<pvars, fvars, rvars, hvars, lvars, mvars, avars, bvars, kvars>>

\* Lines 90-100 (and 247-257, 507-516): the running child writes its
\* heartbeat file.
ChildBeat(c) ==
    /\ slot[c] \in alive
    /\ nBeats < MaxBeats
    /\ hb' = [hb EXCEPT ![c] = {sClock}]
    /\ nBeats' = nBeats + 1
    /\ UNCHANGED <<sClock, slot, alive, nSpawned, born, cPc, wdPc, wdNow, oPc>>
    /\ UNCHANGED <<pvars, fvars, rvars, hvars, lvars, mvars, avars, bvars, kvars>>

\* Time passes on the supervisor's host.
STick ==
    /\ sClock < MaxSupTime
    /\ sClock' = sClock + ClockStep
    /\ UNCHANGED <<hb, slot, alive, nSpawned, born, nBeats, cPc, wdPc, wdNow, oPc>>
    /\ UNCHANGED <<pvars, fvars, rvars, hvars, lvars, mvars, avars, bvars, kvars>>

\* The watchdog left running by the shutdown.
WatchdogLeftRunning == wdPc

\* Lines 419-420: watchdog.abort(); let _ = watchdog.await.
WatchdogAfterAbort == "aborted"

\* Lines 415-420: ctrl-c; the watchdog is stopped first.
OShutdown ==
    /\ oPc = "wait"
    /\ wdPc' = WatchdogAfterAbort
    /\ oPc' = Kids[1]
    /\ UNCHANGED <<sClock, hb, slot, alive, nSpawned, born, nBeats, cPc, wdNow>>
    /\ UNCHANGED <<pvars, fvars, rvars, hvars, lvars, mvars, avars, bvars, kvars>>

\* What run_orchestrator does after the child c.
AfterKid(c) ==
    IF c = Kids[Len(Kids)] THEN "cleanup"
    ELSE Kids[(CHOOSE i \in 1..Len(Kids) : Kids[i] = c) + 1]

\* Lines 423-434: take the child out of its slot, kill it and wait.
OKill(c) ==
    /\ oPc = c
    /\ alive' = alive \ {slot[c]}
    /\ slot' = [slot EXCEPT ![c] = 0]
    /\ oPc' = AfterKid(c)
    /\ UNCHANGED <<sClock, hb, nSpawned, born, nBeats, cPc, wdPc, wdNow>>
    /\ UNCHANGED <<pvars, fvars, rvars, hvars, lvars, mvars, avars, bvars, kvars>>

\* Lines 466-493: the entries of the handoff directory named "<date>.raw".
RemainingRaw(dir) == {e \in dir : e.name.s = <<>>}

\* Lines 436-495: the pid files and the markers are removed, the remaining
\* .raw files are renamed into the processed directory; Ok(()).
OCleanupReturn ==
    /\ oPc = "cleanup"
    /\ hdir' = WithoutMarkers(hdir) \ RemainingRaw(hdir)
    /\ pdir' = {e \in pdir : ~Has(RemainingRaw(hdir), e.name)}
                 \cup {[name |-> e.name, lines |-> e.lines] : e \in RemainingRaw(hdir)}
    /\ oPc' = "returned"
    /\ UNCHANGED <<now, replays, wPc, wDate, wN, wOpen>>
    /\ UNCHANGED <<pvars, fvars, rvars, lvars, mvars, avars, bvars, kvars>>
    /\ UNCHANGED <<sClock, hb, slot, alive, nSpawned, born, nBeats, cPc, wdPc, wdNow>>

\* Lines 301-365: simulator, recorder and processor are running, no child has
\* written a heartbeat, the watchdog is about to take its first tick.
SInit ==
    /\ sClock = 0
    /\ hb = [c \in KidSet |-> {}]
    /\ slot = [c \in KidSet |-> CHOOSE i \in 1..Len(Kids) : Kids[i] = c]
    /\ alive = 1..Len(Kids)
    /\ nSpawned = Len(Kids)
    /\ born = [i \in 1..Len(Kids) |-> 0]
    /\ nBeats = 0
    /\ cPc = [c \in KidSet |-> "idle"]
    /\ wdPc = "tick"
    /\ wdNow = 0
    /\ oPc = "wait"

SNext ==
    \/ WdTick
    \/ \E c \in KidSet : CheckMeta(c)
    \/ \E c \in KidSet : CheckKill(c)
    \/ \E c \in KidSet, ok \in BOOLEAN : CheckRespawn(c, ok)
    \/ WdRoundDone
    \/ \E c \in KidSet : ChildBeat(c)
    \/ STick
    \/ OShutdown
    \/ \E c \in KidSet : OKill(c)
    \/ OCleanupReturn

(***************************************************************************)
(* replay_sample (src/src/simulator.rs) and what it leaves in the          *)
(* structured-log directory.  Each call builds a Persistence of its own,   *)
(* appends the frame of every line that parses and drops the sink at its   *)
(* return.  The daily files are opened for appending, so the directory     *)
(* holds a frame line exactly when some call wrote it.                     *)
(***************************************************************************)
NoFail == [at |-> "none", k |-> 0]

\* Lines 30-53: persistence.append(&frame) for each line in file order.
RECURSIVE ReplayFrom(_, _, _)
ReplayFrom(inner, disk, frames) ==
    IF frames = <<>> THEN disk
    ELSE LET r == PersistAppend(inner, disk, Head(frames), NoFail)
         IN  ReplayFrom(r.inner, r.disk, Tail(frames))

\* Line 31: Frame::from_line is Ok for a sentence and Err for other text.
Parses(line) == "id" \in DOMAIN line

\* Lines 16-70: what one call writes to the daily files.
ReplaySample(lines) ==
    ReplayFrom(PersistenceNew, EmptyDisk, SelectSeq(lines, Parses))

LinesOf(disk) == UNION {{disk.content[d][k] : k \in 1..Len(disk.content[d])} : d \in Dates}

\* The frame lines that the daily files of data_directory hold.
StructuredLog == UNION {LinesOf(ReplaySample(r.lines)) : r \in BagToSet(replays)}

(***************************************************************************)
(* Persistence::append called by several tasks (src/src/persistence.rs)    *)
(* One step per await point of the call: the lock, open_file, each         *)
(* write_all, each flush.  A file holds the pieces written to it in the    *)
(* order of the writes: the bytes of a line, or the "\n" after one.        *)
(***************************************************************************)
Tasks == 1..NTasks

NoFrameYet == [id |-> 0, date |-> 0]

LinePiece(line) == [t |-> "line", f |-> line]

NewlinePiece == [t |-> "nl", f |-> NoFrameYet]

\* write_all on a file opened with append(true): the piece goes to its end.
WritePiece(disk, h, piece) == [disk EXCEPT !.content[h] = Append(@, piece)]

\* A lock that every task gets at once.
MutexNeverHeld(owner) == TRUE

\* Line 43, self.inner.lock().await returns when no guard is alive.
MutexFree(owner) == owner = 0

\* The guard `inner` is dropped when append returns.
Unlocked(owner, c) == IF owner = c THEN 0 ELSE owner

\* A task calls persistence.append(&frame), the frame's sent_at date being d.
ACall(c, d) ==
    /\ aPc[c] = "idle"
    /\ Len(aCalls) < MaxCalls
    /\ LET frame == [id |-> Len(aCalls) + 1, date |-> d]
       IN  /\ aFrame' = [aFrame EXCEPT ![c] = frame]
           /\ aCalls' = Append(aCalls, frame)
    /\ aPc' = [aPc EXCEPT ![c] = "lock"]
    /\ UNCHANGED <<aInner, aDisk, aOwner, aTaken>>
    /\ UNCHANGED <<pvars, rvars, hvars, lvars, mvars, svars, fvars, bvars, kvars>>

\* Lines 43-47, 64-66, 87-91: the lock is taken and the match is evaluated
\* up to its first await; the (None, None) arm pushes to pending and returns.
ALock(c) ==
    /\ aPc[c] = "lock"
    /\ MutexFree(aOwner)
    /\ LET fd == FrameDate(aFrame[c])
       IN  IF fd # 0 /\ aInner.date # fd
           THEN /\ aPc' = [aPc EXCEPT ![c] = "open"]
                /\ aOwner' = c
                /\ UNCHANGED aInner
           ELSE IF fd # 0 \/ UndatedToFile(aInner)
           THEN /\ aPc' = [aPc EXCEPT ![c] = "frameLine"]
                /\ aOwner' = c
                /\ UNCHANGED aInner
           ELSE /\ aInner' = [aInner EXCEPT !.pending = Append(@, aFrame[c])]
                /\ aPc' = [aPc EXCEPT ![c] = "idle"]
                /\ aOwner' = Unlocked(aOwner, c)
    /\ UNCHANGED <<aDisk, aFrame, aTaken, aCalls>>
    /\ UNCHANGED <<pvars, rvars, hvars, lvars, mvars, svars, fvars, bvars, kvars>>

\* Lines 48-52: open_file returns; inner.file and inner.date are set and the
\* pending lines are taken.
AOpen(c) ==
    /\ aPc[c] = "open"
    /\ LET fd == FrameDate(aFrame[c])
       IN  /\ aDisk' = OpenFile(aDisk, fd)
           /\ aInner' = [date |-> fd, file |-> fd, pending |-> <<>>]
    /\ aTaken' = [aTaken EXCEPT ![c] = aInner.pending]
    /\ aPc' = [aPc EXCEPT ![c] = IF aInner.pending = <<>> THEN "frameLine"
                                  ELSE "pendingLine"]
    /\ UNCHANGED <<aOwner, aFrame, aCalls>>
    /\ UNCHANGED <<pvars, rvars, hvars, lvars, mvars, svars, fvars, bvars, kvars>>

\* Lines 54-56: file.write_all(line.as_bytes()) of the next pending line.
APendingLine(c) ==
    /\ aPc[c] = "pendingLine"
    /\ aDisk' = WritePiece(aDisk, aInner.file, LinePiece(Head(aTaken[c])))
    /\ aPc' = [aPc EXCEPT ![c] = "pendingNewline"]
    /\ UNCHANGED <<aInner, aOwner, aFrame, aTaken, aCalls>>
    /\ UNCHANGED <<pvars, rvars, hvars, lvars, mvars, svars, fvars, bvars, kvars>>

\* Lines 57-59: file.write_all(b"\n") after it.
APendingNewline(c) ==
    /\ aPc[c] = "pendingNewline"
    /\ aDisk' = WritePiece(aDisk, aInner.file, NewlinePiece)
    /\ aTaken' = [aTaken EXCEPT ![c] = Tail(@)]
    /\ aPc' = [aPc EXCEPT ![c] = IF Tail(aTaken[c]) = <<>> THEN "pendingFlush"
                                  ELSE "pendingLine"]
    /\ UNCHANGED <<aInner, aOwner, aFrame, aCalls>>
    /\ UNCHANGED <<pvars, rvars, hvars, lvars, mvars, svars, fvars, bvars, kvars>>

\* Line 61: file.flush() after the pending lines.
APendingFlush(c) ==
    /\ aPc[c] = "pendingFlush"
    /\ aPc' = [aPc EXCEPT ![c] = "frameLine"]
    /\ UNCHANGED <<aInner, aDisk, aOwner, aFrame, aTaken, aCalls>>
    /\ UNCHANGED <<pvars, rvars, hvars, lvars, mvars, svars, fvars, bvars, kvars>>

\* Lines 94-97: file.write_all(frame_line.as_bytes()) on inner.file.
AFrameLine(c) ==
    /\ aPc[c] = "frameLine"
    /\ aDisk' = WritePiece(aDisk, aInner.file, LinePiece(aFrame[c]))
    /\ aPc' = [aPc EXCEPT ![c] = "frameNewline"]
    /\ UNCHANGED <<aInner, aOwner, aFrame, aTaken, aCalls>>
    /\ UNCHANGED <<pvars, rvars, hvars, lvars, mvars, svars, fvars, bvars, kvars>>

\* Lines 98-100: file.write_all(b"\n").
AFrameNewline(c) ==
    /\ aPc[c] = "frameNewline"
    /\ aDisk' = WritePiece(aDisk, aInner.file, NewlinePiece)
    /\ aPc' = [aPc EXCEPT ![c] = "frameFlush"]
    /\ UNCHANGED <<aInner, aOwner, aFrame, aTaken, aCalls>>
    /\ UNCHANGED <<pvars, rvars, hvars, lvars, mvars, svars, fvars, bvars, kvars>>

\* Lines 101, 106: file.flush(), Ok(()) and the guard is dropped.
AFrameFlush(c) ==
    /\ aPc[c] = "frameFlush"
    /\ aOwner' = Unlocked(aOwner, c)
    /\ aPc' = [aPc EXCEPT ![c] = "idle"]
    /\ UNCHANGED <<aInner, aDisk, aFrame, aTaken, aCalls>>
    /\ UNCHANGED <<pvars, rvars, hvars, lvars, mvars, svars, fvars, bvars, kvars>>

AInit ==
    /\ aInner = PersistenceNew
    /\ aDisk = EmptyDisk
    /\ aOwner = 0
    /\ aPc = [c \in Tasks |-> "idle"]
    /\ aFrame = [c \in Tasks |-> NoFrameYet]
    /\ aTaken = [c \in Tasks |-> <<>>]
    /\ aCalls = <<>>

ANext ==
    \/ \E c \in Tasks, d \in 0..NDates : ACall(c, d)
    \/ \E c \in Tasks : ALock(c)
    \/ \E c \in Tasks : AOpen(c)
    \/ \E c \in Tasks : APendingLine(c)
    \/ \E c \in Tasks : APendingNewline(c)
    \/ \E c \in Tasks : APendingFlush(c)
    \/ \E c \in Tasks : AFrameLine(c)
    \/ \E c \in Tasks : AFrameNewline(c)
    \/ \E c \in Tasks : AFrameFlush(c)

(***************************************************************************)
(* The long-lived backup sink (src/src/backup.rs, Backup with per_append   *)
(* false): it keeps the file of the current date open.  A line is named by *)
(* the index of the append call that carries it; a write puts the line and *)
(* its newline into the file.                                              *)
(***************************************************************************)
\* Backup::new: no current file, no current date.
BackupNew == [date |-> 0, file |-> 0]

\* What can fail in one append: nothing, the open of roll_to_date, the write
\* of the line.
BackupFails == {"none", "open", "write"}

\* roll_to_date: the current file is taken out and dropped, then the file of
\* the date is opened with create+append; `?` returns the Err of the open
\* before current_file and current_date are assigned.
RollToDate(cur, date, fail) ==
    LET taken == [cur EXCEPT !.file = 0]
    IN  IF fail = "open"
        THEN [cur |-> taken, ok |-> FALSE]
        ELSE [cur |-> [date |-> date, file |-> date], ok |-> TRUE]

\* Backup::append with per_append false: roll when current_date is not the
\* date; write line, newline and flush if there is a current file; Ok(()).
BackupAppend(cur, files, line, date, fail) ==
    LET rolled == IF cur.date # date THEN RollToDate(cur, date, fail)
                  ELSE [cur |-> cur, ok |-> TRUE]
    IN  IF ~rolled.ok
        THEN [cur |-> rolled.cur, files |-> files, ok |-> FALSE]
        ELSE IF rolled.cur.file # 0
        THEN IF fail = "write"
             THEN [cur |-> rolled.cur, files |-> files, ok |-> FALSE]
             ELSE [cur |-> rolled.cur,
                   files |-> [files EXCEPT ![rolled.cur.file] = Append(@, line)],
                   ok |-> TRUE]
        ELSE [cur |-> rolled.cur, files |-> files, ok |-> TRUE]

\* Whether the operation that fail names is one this call performs.
BackupFailApplies(cur, date, fail) ==
    CASE fail = "none" -> TRUE
      [] fail = "open" -> cur.date # date
      [] fail = "write" -> cur.date # date \/ cur.file # 0

\* One call backup.append(&raw, ts) with ts on the date d.
BAppend(d, fail) ==
    /\ Len(bLog) < MaxAppends
    /\ BackupFailApplies(bCur, d, fail)
    /\ fail # "none" => Cardinality({i \in 1..Len(bLog) : ~bLog[i].ok}) < MaxFails
    /\ LET r == BackupAppend(bCur, bFiles, Len(bLog) + 1, d, fail)
       IN  /\ bCur' = r.cur
           /\ bFiles' = r.files
           /\ bLog' = Append(bLog, [date |-> d, ok |-> r.ok, at |-> fail])
    /\ UNCHANGED <<pvars, fvars, rvars, hvars, lvars, mvars, svars, avars, kvars>>

BInit ==
    /\ bCur = BackupNew
    /\ bFiles = [d \in Dates |-> <<>>]
    /\ bLog = <<>>

BNext == \E d \in Dates, fail \in BackupFails : BAppend(d, fail)

(***************************************************************************)
(* One child that writes its heartbeat file at every tick of its interval, *)
(* and the watchdog's readings of the file (src/src/service.rs).  The      *)
(* state begins with the child's first write: the first tick of a tokio    *)
(* interval completes at once.                                             *)
(***************************************************************************)
\* Lines 89, 246, 506: min(5, file_stability_seconds).max(1), in seconds.
HbInterval(secs) ==
    LET capped == IF secs < 5 THEN secs ELSE 5
    IN  IF capped > 1 THEN capped ELSE 1

\* Lines 92-97: the ticker fires an interval after the last tick and the
\* child writes the file.
KBeat ==
    /\ kClock = kBeat + HbInterval(kSecs)
    /\ kBeat' = kClock
    /\ UNCHANGED <<kSecs, kClock, kSeen>>
    /\ UNCHANGED <<pvars, fvars, rvars, hvars, lvars, mvars, svars, avars, bvars>>

\* A second passes; the clock does not pass a tick of the child's ticker.
KTick ==
    /\ kClock < MaxBeatTime
    /\ kClock < kBeat + HbInterval(kSecs)
    /\ kClock' = kClock + 1
    /\ UNCHANGED <<kSecs, kBeat, kSeen>>
    /\ UNCHANGED <<pvars, fvars, rvars, hvars, lvars, mvars, svars, avars, bvars>>

\* Lines 370-383: one round of the watchdog reads the file's mtime.
KCheck ==
    /\ Len(kSeen) < MaxChecks
    /\ kSeen' = Append(kSeen, StaleFor({kBeat}, kClock, ThresholdOf(kSecs)))
    /\ UNCHANGED <<kSecs, kClock, kBeat>>
    /\ UNCHANGED <<pvars, fvars, rvars, hvars, lvars, mvars, svars, avars, bvars>>

\* The child has written its first heartbeat; the configuration gives secs
\* for file_stability_seconds.
KInitOf(secs) ==
    /\ kSecs = secs
    /\ kClock = 0
    /\ kBeat = 0
    /\ kSeen = <<>>

\* The configuration the other parts of the model run with.
KInit == KInitOf(StableSecs)

KNext ==
    \/ KBeat
    \/ KTick
    \/ KCheck

Init == PInit /\ RInit /\ HInit /\ SInit /\ FInit /\ AInit /\ BInit /\ KInit

\* The files of earlier days that a manager finds when it is started: one
\* line each, written before the clock of the model starts.
Backlog ==
    {[name |-> Raw(f), mtime |-> 0, lines |-> <<[id |-> f, date |-> f]>>] :
        f \in 1..NBacklog}

\* The start of a manager on a backlog; no recorder runs.
InitBacklog ==
    /\ PInit /\ RInit /\ HInitOn(Backlog) /\ SInit /\ FInit /\ AInit /\ BInit
    /\ KInit

\* The values file_stability_seconds can have: every value of its type.
StabilityValues == 0..MaxSecs

\* The start with any configuration.
InitAnySecs ==
    /\ PInit /\ RInit /\ HInit /\ SInit /\ FInit /\ AInit /\ BInit
    /\ \E secs \in StabilityValues : KInitOf(secs)

SpecPersist == Init /\ [][PNext]_vars

SpecRec == Init /\ [][RNext]_vars

SpecLoop == Init /\ [][LNextAll]_vars

SpecMgr == Init /\ [][MNextAll]_vars

\* One recorder from its start to the return of run_recording.
ShutNext ==
    \/ \E d \in 0..NDates : WAppendData(d)
    \/ WMarker
    \/ WNewDay
    \/ Tick
    \/ WCtrlC
    \/ WCleanupReturn

SpecShut == Init /\ [][ShutNext]_vars

\* The processing manager and its workers beside a recorder whose days change.
MDaysNext ==
    \/ MNextAll
    \/ WNewDay

SpecMgrDays == Init /\ [][MDaysNext]_vars

SpecSup == Init /\ [][SNext]_vars

\* A step of the watchdog task, from one of its awaits to the next.
WatchdogStep ==
    \/ WdTick
    \/ \E c \in KidSet : CheckMeta(c)
    \/ \E c \in KidSet : CheckKill(c)
    \/ \E c \in KidSet, ok \in BOOLEAN : CheckRespawn(c, ok)
    \/ WdRoundDone

\* The supervisor up to the moment it stops the watchdog.
WatchNext ==
    \/ WatchdogStep
    \/ \E c \in KidSet : ChildBeat(c)
    \/ STick
    \/ OShutdown

\* The watchdog is a spawned task: the runtime goes on polling it, its
\* ticker fires every 2 seconds and kill, wait and spawn come back, until
\* run_orchestrator aborts it.
SpecWatch == Init /\ [][WatchNext]_vars /\ WF_vars(WatchdogStep)

SpecParse == Init /\ [][FNext]_vars

SpecBackup == Init /\ [][BNext]_vars

SpecBeat == InitAnySecs /\ [][KNext]_vars

\* Tasks that share one sink, no I/O operation failing.
SpecAppend == Init /\ [][ANext]_vars

\* The processing loop when no I/O operation on an existing file fails:
\* replay_sample returns Err only for a file that is gone.
LStep ==
    \/ LScan
    \/ LNext
    \/ LSleepDone
    \/ LStatFile
    \/ LStatMarker
    \/ LReplay(TRUE)
    \/ LMove
    \/ LMoveFailed

\* The loop beside a recorder that is stopped at some moment.

LiveNext ==
    \/ WNext
    \/ WNewDay
    \/ WCtrlC
    \/ WCleanupReturn
    \/ LStep

\* The loop is a task of its own that is never cancelled, and time passes.
SpecLive == Init /\ [][LiveNext]_vars /\ WF_vars(LStep) /\ WF_vars(Tick)

\* The manager with workers that finish within the tick interval and meet no
\* I/O error, crashing and being restarted, beside a recorder within one day
\* whose frames are all of one date; the clock runs a second longer.
CrashNext ==
    \/ WAppendData(1)
    \/ WMarker
    \/ WCleanupMarkers
    \/ TickTo(MaxTime + 1)
    \/ MTickWorkersDone
    \/ MNext
    \/ MCheckMarker
    \/ MStat
    \/ MRename
    \/ \E w \in workers : WkReplay(w, TRUE)
    \/ \E w \in workers : WkDone(w)
    \/ MCrash

SpecCrash == Init /\ [][CrashNext]_vars

\* The steps of run_processing_loop, replay_sample returning Ok or Err.
LAnyStep ==
    \/ LScan
    \/ LNext
    \/ LSleepDone
    \/ LStatFile
    \/ LStatMarker
    \/ \E ok \in BOOLEAN : LReplay(ok)
    \/ LMove
    \/ LMoveFailed

\* The loop beside a recorder within one day whose frames are all of one
\* date, and an owner that sends the shutdown at some moment.
StopNext ==
    \/ WAppendData(1)
    \/ WMarker
    \/ WCleanupMarkers
    \/ Tick
    \/ ShutdownSend
    \/ LAnyStep

\* The loop is a spawned task (service.rs:260-263) that runs on whatever
\* the recorder and its owner do.
SpecStop == Init /\ [][StopNext]_vars /\ WF_vars(LAnyStep)

\* The manager and its workers on a backlog, the workers meeting no error.
BacklogNext ==
    \/ Tick
    \/ MTick
    \/ MNext
    \/ MCheckMarker
    \/ MStat
    \/ MRename
    \/ \E w \in workers : WkReplay(w, TRUE)
    \/ \E w \in workers : WkDone(w)

SpecBacklog == InitBacklog /\ [][BacklogNext]_vars

\* The recorder and the processor as children of the supervisor: each runs
\* while its process is alive, and the supervisor shuts down at some moment.
OrchNext ==
    \/ slot["rec"] \in alive /\ (WAppendData(1) \/ WMarker)
    \/ slot["proc"] \in alive /\ LAnyStep
    \/ Tick
    \/ OShutdown
    \/ \E c \in KidSet : OKill(c)
    \/ OCleanupReturn

SpecOrch == Init /\ [][OrchNext]_vars

\* The loop beside a recorder that goes on appending to the file of one day,
\* for a second longer than the other specifications follow the clock.
RecreateNext ==
    \/ WAppendData(1)
    \/ WMarker
    \/ TickTo(MaxTime + 1)
    \/ LAnyStep

SpecRecreate == Init /\ [][RecreateNext]_vars



(***************************************************************************)
(* Claims about the persistence sink, checked under SpecPersist.           *)
(***************************************************************************)
AllOk(h) == \A i \in 1..Len(h) : h[i].ok

DatedIn(h) == {h[i].date : i \in 1..Len(h)} \ {0}

HistDates(h) == [i \in 1..Len(h) |-> h[i].date]

\* How many lines of the daily files carry the frame of append call i.
Occurrences(i) ==
    Cardinality({<<d, k>> \in Dates \X (1..MaxAppends) :
                    k <= Len(pDisk.content[d]) /\ pDisk.content[d][k].id = i})

\* C5: after appends that all succeeded and carried K >= 1 distinct dates,
\* exactly the K files of those dates exist, every appended frame's line is in
\* the files exactly once, every dated line is in the file of its own date, and
\* each file holds its lines in the order of the append calls.
C5_RotationKeepsEveryLineOnce ==
    (AllOk(pHist) /\ DatedIn(pHist) # {}) =>
        /\ pDisk.exists = DatedIn(pHist)
        /\ \A d \in Dates \ pDisk.exists : pDisk.content[d] = <<>>
        /\ \A i \in 1..Len(pHist) : Occurrences(i) = 1
        /\ \A d \in Dates : \A k \in 1..Len(pDisk.content[d]) :
              LET l == pDisk.content[d][k]
              IN  /\ l.id \in 1..Len(pHist)
                  /\ l.date = pHist[l.id].date
                  /\ l.date \in {0, d}
                  /\ \A j \in 1..(k - 1) : pDisk.content[d][j].id < l.id

\* Four successful appends: a Config, date 1, date 2 and date 1 again.
C5_Witness ==
    /\ AllOk(pHist)
    /\ HistDates(pHist) = <<0, 1, 2, 1>>
    /\ Len(pDisk.content[1]) = 3
    /\ Len(pDisk.content[2]) = 1

\* C6: on a fresh sink, n >= 1 Config appends create no file, and the next
\* append, of a frame dated D, creates exactly adcp-D.log holding the n Config
\* lines in their order followed by the dated line.
C6_ConfigBufferedUntilFirstDate ==
    (/\ AllOk(pHist)
     /\ Len(pHist) >= 1
     /\ \A i \in 1..(Len(pHist) - 1) : pHist[i].date = 0) =>
        LET n == Len(pHist)
            D == pHist[n].date
        IN  IF D = 0
            THEN /\ pDisk = EmptyDisk
                 /\ Len(pInner.pending) = n
            ELSE /\ pDisk.exists = {D}
                 /\ pDisk.content[D] = [i \in 1..n |-> [id |-> i, date |-> pHist[i].date]]
                 /\ \A d \in Dates \ {D} : pDisk.content[d] = <<>>

\* Two Config frames were buffered and a frame dated 2 then flushed them.
C6_Witness ==
    /\ AllOk(pHist)
    /\ HistDates(pHist) = <<0, 0, 2>>
    /\ pDisk.exists = {2}
    /\ Len(pDisk.content[2]) = 3

\* C7: once the sink has been dropped, the line of every append call that
\* returned Ok is in a daily file (a line is missing only if its own append
\* call returned an error).
C7_NoOkFrameIsDropped ==
    ~pAlive => \A i \in 1..Len(pHist) : pHist[i].ok => Occurrences(i) >= 1

\* The append call just made carried a frame with no sent_at.
UndatedAppendStep ==
    /\ Len(pHist') = Len(pHist) + 1
    /\ pHist'[Len(pHist')].date = 0

\* C18: in every state of the persistence sink, appending a frame with no
\* sent_at leaves the sink's current date and current file unchanged and
\* neither opens nor creates a file.
C18_UndatedFrameNeverRotates ==
    [][UndatedAppendStep =>
          /\ pInner'.date = pInner.date
          /\ pInner'.file = pInner.file
          /\ pDisk'.exists = pDisk.exists]_vars

\* Undated frames were appended both before the first file was opened and
\* with a file open, and two daily files exist.
C18_Witness ==
    /\ Len(pHist) = 4
    /\ AllOk(pHist)
    /\ HistDates(pHist) = <<0, 1, 2, 0>>
    /\ pInner.date = 2
    /\ Len(pDisk.content[2]) = 2

\* The date of the last dated frame whose append returned Ok; 0 if none.
RECURSIVE LastOkDated(_)
LastOkDated(h) ==
    IF h = <<>> THEN 0
    ELSE IF h[Len(h)].ok /\ h[Len(h)].date # 0 THEN h[Len(h)].date
    ELSE LastOkDated(SubSeq(h, 1, Len(h) - 1))

\* C19: after any sequence of appends of which at least one dated frame
\* succeeded, current_path() names adcp-<D>.log, D being the sent_at date of
\* the most recently successfully appended dated frame, and that file exists.
C19_CurrentPathIsLastOkDate ==
    LastOkDated(pHist) # 0 =>
        /\ CurrentPath(pInner) = LastOkDated(pHist)
        /\ CurrentPath(pInner) \in pDisk.exists

\* The frame of the append call just made, and whether the call returned Ok.
LastFrame == [id |-> Len(pHist'), date |-> pHist'[Len(pHist')].date]

LastOk == pHist'[Len(pHist')].ok

\* C27 as stated: appending a frame without sent_at writes to no file during
\* the call in every sink state, before and after a dated frame has been
\* seen; the frame is held in the in-memory buffer.
C27_UndatedAlwaysBufferedNeverWritten ==
    [][UndatedAppendStep =>
          /\ pDisk' = pDisk
          /\ pInner'.pending = Append(pInner.pending, LastFrame)]_vars

\* C27: appending a frame without sent_at writes to no file and holds the
\* frame in the buffer as long as the sink has seen no dated frame; once the
\* sink has a current file the call writes the frame's line to the end of
\* that file at once and buffers nothing.
C27_UndatedBufferedUntilFirstDate ==
    [][UndatedAppendStep =>
          IF pInner.date = 0
          THEN /\ LastOk
               /\ pDisk' = pDisk
               /\ pInner'.pending = Append(pInner.pending, LastFrame)
          ELSE /\ pInner'.pending = pInner.pending
               /\ pInner.pending = <<>>
               /\ IF LastOk
                  THEN pDisk' = [pDisk EXCEPT !.content[pInner.file] =
                                                Append(@, LastFrame)]
                  ELSE pDisk' = pDisk]_vars

\* An undated frame was buffered, flushed by the first dated frame, and a
\* second undated frame was then written to the open file by its own call.
C27_Witness ==
    /\ Len(pHist) = 3
    /\ AllOk(pHist)
    /\ HistDates(pHist) = <<0, 1, 0>>
    /\ pInner = [date |-> 1, file |-> 1, pending |-> <<>>]
    /\ pDisk.content[1] = <<[id |-> 1, date |-> 0], [id |-> 2, date |-> 1],
                             [id |-> 3, date |-> 0]>>

\* The append call just made failed in open_file.
OpenFailedStep ==
    /\ Len(pHist') = Len(pHist) + 1
    /\ pHist'[Len(pHist')].at = "open"

\* The append call just made carried a frame of the date whose open failed in
\* the call before it.
RetryStep ==
    /\ Len(pHist') = Len(pHist) + 1
    /\ Len(pHist) >= 1
    /\ pHist[Len(pHist)].at = "open"
    /\ pHist'[Len(pHist')].date = pHist[Len(pHist)].date
    /\ pHist'[Len(pHist')].at = "none"

StepsOf(i) == {rLog[k].step : k \in {k \in 1..Len(rLog) : rLog[k].line = i}}

ParsedOk(i) == \E k \in 1..Len(rLog) :
                  rLog[k].line = i /\ rLog[k].step = "parse" /\ rLog[k].ok

\* Every step that line i gets has been attempted.
FannedOut(i) ==
    /\ {"backup", "handoff", "parse"} \subseteq StepsOf(i)
    /\ ParsedOk(i) => "persist" \in StepsOf(i)

\* The lines the worker has left behind: all but the one in flight.
LinesDone == IF rPc \in {"connect", "select", "sleep"} THEN 1..rLine ELSE 1..(rLine - 1)

Rank(step) == CHOOSE r \in 1..4 : Steps[r] = step

\* C8: whichever of a line's steps fail, the backup write, the handoff write
\* and the parse are all attempted for it (and the persistence append when the
\* parse gave a frame), and the worker never ends with an error once it reads
\* lines: a failed step does not stop the loop.
C8_FailuresAreIsolated ==
    /\ \A i \in LinesDone : FannedOut(i)
    /\ rRun = "failed" => rLine = 0 /\ rPc = "connect"

\* Line 1 failed at the backup sink, the handoff sink and persistence, and
\* line 2 has been read.
C8_Witness ==
    /\ rLine = 2
    /\ \A k \in 1..4 : rLog[k] = [line |-> 1, step |-> Steps[k], ok |-> k = 3]
    /\ rRun = "running"

\* C9: the destination steps happen in source order: for one line the backup
\* write, then the handoff write, then parse and persist, and every step of a
\* line before any step of the next one.
C9_StepsInOrder ==
    \A j \in 1..Len(rLog) : \A i \in 1..(j - 1) :
        \/ rLog[i].line < rLog[j].line
        \/ rLog[i].line = rLog[j].line /\ Rank(rLog[i].step) < Rank(rLog[j].step)

\* Two lines have gone through all four steps.
C9_Witness ==
    /\ Len(rLog) = 8
    /\ \A k \in 1..8 : rLog[k].ok
    /\ rLog[4] = [line |-> 1, step |-> "persist", ok |-> TRUE]
    /\ rLog[5] = [line |-> 2, step |-> "backup", ok |-> TRUE]

\* C10: when the recorder has been shut down, every line it read has either
\* had all of its steps or none of them: the line in flight was drained.
C10_InFlightLineDrained ==
    rRun = "cancelled" => \A i \in 1..rLine : StepsOf(i) = {} \/ FannedOut(i)

(***************************************************************************)
(* The handoff between the per-append sink and the processors              *)
(***************************************************************************)
\* The marker of n exists and is younger than file_stability_seconds.
MarkerFresh(n) == Has(hdir, Marker(n)) /\ Age(hdir, Marker(n)) < StableSecs

\* n exists, has no marker, and is itself younger than file_stability_seconds.
FreshWithoutMarker(n) ==
    Has(hdir, n) /\ ~Has(hdir, Marker(n)) /\ Age(hdir, n) < StableSecs

\* The processing loop's step that hands lCur to replay_sample.
LoopStartsReplay == lPc = "replay" /\ lPc' # "replay"

\* C1: a handoff file is replayed once: no line of it is read by two replays.
C1_ReplayedExactlyOnce ==
    \A a, b \in BagToSet(replays) :
        /\ CopiesIn(a, replays) = 1
        /\ a # b => \A k \in 1..Len(a.lines) : \A m \in 1..Len(b.lines) :
                        a.lines[k] # b.lines[m]

\* C2: whatever the sink's writes do between the manager's steps, the step
\* that renames a file to <name>.processing is never taken while the file's
\* .writing marker is fresh.
C2_NoProcessingNameWhileMarkerFresh ==
    [][\A n \in NamesIn(hdir) :
          (~Has(hdir', n) /\ Has(hdir', Processing(n)) /\ ~Has(hdir, Processing(n)))
              => ~MarkerFresh(n)]_vars

\* C3: the processing loop hands a raw file to replay only when the file's
\* .writing marker is absent or has aged past file_stability_seconds.
C3_NoReplayWhileMarkerFresh ==
    [][(LoopStartsReplay /\ ~EndsWith(lCur, "w")) => ~MarkerFresh(lCur)]_vars

\* C4: the processing loop hands a raw file that has no marker to replay only
\* when the file's own mtime has aged past file_stability_seconds.
C4_NoReplayOfYoungFile ==
    [][(LoopStartsReplay /\ ~EndsWith(lCur, "w")) => ~FreshWithoutMarker(lCur)]_vars

\* C13: of two raw files that one scan of the manager found stable and gave
\* to workers, the one whose name sorts later is not replayed while the
\* earlier one has not been replayed and moved.
C13_SortedFilesOneAfterTheOther ==
    \A a, b \in workers :
        (/\ a.cyc /\ b.cyc
         /\ a.fname.s = <<>> /\ b.fname.s = <<>>
         /\ NameLess(a.fname, b.fname)) => b.st = "spawned"

\* C12: once the source is open the worker leaves the loop only by the
\* shutdown; a read that gives no line, or fails, is followed by the sleep
\* and the sleep by the next read.
C12_OnlyShutdownEndsLoop ==
    [][/\ (rPc # "connect" /\ rRun = "running" /\ rRun' # "running")
              => rRun' = "cancelled"
       /\ (rPc = "select" /\ rRun' = "running" /\ rPc' # "select")
              => rPc' = "sleep" \/ (rPc' = "backup" /\ rLine' = rLine + 1)
       /\ (rPc = "sleep" /\ rRun' = "running") => rPc' \in {"sleep", "select"}]_vars

\* A line went through, then a read gave nothing and the loop sleeps.
C12_Witness ==
    /\ rRun = "running"
    /\ rPc = "sleep"
    /\ rLine = 1
    /\ Len(rLog) = 4

(***************************************************************************)
(* The supervisor's watchdog and shutdown                                  *)
(***************************************************************************)
\* C14: the watchdog decides to kill and respawn a child only when the
\* child's heartbeat file has an mtime older than max(10, 3 x
\* file_stability_seconds) seconds.
C14_KillOnlyWhenHeartbeatOld ==
    [][\A c \in KidSet :
          (cPc[c] = "meta" /\ cPc'[c] = "kill")
              => \E m \in hb[c] : sClock - m > ThresholdSecs]_vars

\* C15: once run_orchestrator has stopped the watchdog no child is spawned,
\* and when it has returned no child process it ever spawned is running.
C15_ShutdownKillsEveryChild ==
    /\ [](oPc = "returned" => alive = {})
    /\ [][oPc # "wait" => nSpawned' = nSpawned]_vars

\* run_orchestrator has returned; the watchdog had restarted one child and
\* was stopped inside the restart of another, between its kill and its spawn.
C15_Witness ==
    /\ oPc = "returned"
    /\ nSpawned = Len(Kids) + 1
    /\ \E c \in KidSet : cPc[c] = "reap"

WriterStopped == wPc \in {"dropped", "returned"}

\* The clock of the model still reaches the age StableSecs of every file.
AgesReachable == \A e \in hdir : e.mtime + StableSecs <= MaxTime

\* The file is out of the handoff directory, in the processed directory
\* under its name, and replay_sample has read the lines it holds there.
MovedAndReplayed(n) ==
    /\ ~Has(hdir, n)
    /\ Has(pdir, n)
    /\ [name |-> n, lines |-> Ent(pdir, n).lines] \in BagToSet(replays)

FramesLogged(n) ==
    \A k \in 1..Len(Ent(pdir, n).lines) : Ent(pdir, n).lines[k] \in StructuredLog

\* Once the writer has stopped, every .raw file of the handoff directory is
\* in the end replayed and moved to the processed directory.
EveryRawMovedInTheEnd ==
    \A f \in 1..NFiles :
        (WriterStopped /\ AgesReachable /\ Has(hdir, Raw(f)))
            ~> MovedAndReplayed(Raw(f))

\* C16: if the per-append writer stops appending and the processing loop keeps
\* running, every .raw file of the handoff directory is eventually replayed
\* and moved to the processed directory, and the valid frames it contains are
\* in the structured-log directory.
C16_StoppedWriterFilesEndInLog ==
    \A f \in 1..NFiles :
        (WriterStopped /\ AgesReachable /\ Has(hdir, Raw(f)))
            ~> (MovedAndReplayed(Raw(f)) /\ FramesLogged(Raw(f)))

(***************************************************************************)
(* Claims about the per-append sink, checked under SpecShut: the recorder  *)
(* alone, no processor taking files out of the handoff directory.          *)
(***************************************************************************)
\* The lines of <date>.raw for the dates up to f, the earliest date first.
RECURSIVE RawLinesUpTo(_)
RawLinesUpTo(f) ==
    IF f = 0 THEN <<>>
    ELSE RawLinesUpTo(f - 1)
            \o (IF Has(hdir, Raw(f)) THEN Ent(hdir, Raw(f)).lines ELSE <<>>)

\* Every line appended so far is in the file of its date, in call order.
AppendedLinesInCallOrder ==
    /\ Len(RawLinesUpTo(NFiles)) = wN
    /\ \A k \in 1..wN : RawLinesUpTo(NFiles)[k].id = k

\* The state a successful append returns in.
AppendPostcondition(dir, date, n, t, open) ==
    /\ Has(dir, Raw(date))
    /\ Ent(dir, Raw(date)).lines # <<>>
    /\ Ent(dir, Raw(date)).lines[Len(Ent(dir, Raw(date)).lines)].id = n
    /\ Has(dir, Marker(Raw(date)))
    /\ Ent(dir, Marker(Raw(date))).lines = <<[ts |-> t]>>
    /\ open = {}

\* C17: each successful per-append append(line, ts) leaves <date>.raw holding
\* all previously appended lines in call order followed by line, leaves
\* <date>.raw.writing present with the current Unix timestamp as its whole
\* content, and holds no open file handle after it returns.
C17_AppendKeepsLinesRewritesMarkerHoldsNoHandle ==
    /\ []AppendedLinesInCallOrder
    /\ [][(wPc = "marker" /\ wPc' = "idle")
              => AppendPostcondition(hdir', wDate', wN', now', wOpen')]_vars

\* The second append to a file has returned, a second after the first wrote
\* the marker.
C17_Witness ==
    /\ wPc = "idle"
    /\ wN = 2
    /\ Has(hdir, Raw(1)) /\ Len(Ent(hdir, Raw(1)).lines) = 2
    /\ Has(hdir, Marker(Raw(1)))
    /\ Ent(hdir, Marker(Raw(1))).lines = <<[ts |-> 1]>>
    /\ Ent(hdir, Raw(1)).mtime = 1
    /\ wOpen = {}

(***************************************************************************)
(* Claims about the parser, checked under SpecParse.                       *)
(***************************************************************************)
\* The line is a well-formed $PNORI, $PNORS or $PNORC sentence followed by
\* '*' and the two hex digits of the XOR of its body, with or without a
\* line end.
WellFormedWithChecksum(in) ==
    /\ in.body \in WellFormedBodies
    /\ in.cs \in {"upper", "lower"}
    /\ ~in.junk

\* C20: for every well-formed $PNORI, $PNORS or $PNORC sentence whose *XX
\* checksum is the XOR of the body bytes after the leading '$', from_line
\* succeeds; and every Frame that from_line returns has checksum.valid = true
\* with provided = computed.
C20_ChecksummedSentenceParsesAndFramesAreValid ==
    fPc = "done" =>
        /\ WellFormedWithChecksum(fIn) => fOut.ok
        /\ fOut.ok => /\ fOut.checksum.valid
                      /\ fOut.checksum.provided = fOut.checksum.computed

\* from_line has returned the Sensor frame of the $PNORS sentence with *77.
C20_Witness ==
    /\ fPc = "done"
    /\ fIn = [body |-> 2, cs |-> "upper", junk |-> FALSE, eol |-> TRUE, alt |-> 0]
    /\ fOut.ok
    /\ fOut.payload = "Sensor"
    /\ fOut.checksum = [provided |-> 119, computed |-> 119, valid |-> TRUE]


(***************************************************************************)
(* Claims about the parser's errors and junk handling                      *)
(***************************************************************************)

\* A well-formed sentence whose checksum has been changed to another byte.
AlteredChecksum(in) == in.body \in WellFormedBodies /\ in.cs = "wrong"

\* C21: for every otherwise well-formed sentence whose two-hex-digit checksum
\* is changed to another byte value, Frame::from_line fails with the
\* checksum-mismatch error, which carries the provided and the computed
\* byte, and constructs no Frame.
C21_AlteredChecksumIsMismatchError ==
    (fPc = "done" /\ AlteredChecksum(fIn)) =>
        /\ ~fOut.ok
        /\ fOut.err = "checksum mismatch"
        /\ fOut.checksum.computed = SentenceXor(Bodies[fIn.body])
        /\ fOut.checksum.provided = Altered(SentenceXor(Bodies[fIn.body]), fIn.alt)
        /\ fOut.checksum.provided # fOut.checksum.computed
        /\ fOut.payload = "none"

\* A Current sentence has been parsed whose checksum differs from the right
\* one in the high hex digit alone.
C21_Witness ==
    /\ fPc = "done"
    /\ fIn = [body |-> 3, cs |-> "wrong", junk |-> FALSE, eol |-> TRUE, alt |-> 2]
    /\ fOut.err = "checksum mismatch"

\* A valid sentence with a junk prefix, a junk suffix or both, and the
\* sentence itself.
WithJunk(in) ==
    /\ in.body \in WellFormedBodies
    /\ \/ in.junk /\ in.cs \in {"upper", "junk after"}
       \/ ~in.junk /\ in.cs = "junk after"

Clean(in) == [in EXCEPT !.junk = FALSE, !.cs = "upper"]

\* C22: for every valid sentence s, every junk prefix j1 (without a sentence
\* marker and without '*') and every junk suffix j2 (non-whitespace, without
\* '*'), from_line(j1 + s + j2) succeeds and equals from_line(s) in every
\* field other than discarded: in raw, in checksum and in payload.
C22_JunkChangesOnlyDiscarded ==
    (fPc = "done" /\ WithJunk(fIn)) =>
        /\ fOut.ok
        /\ [fOut EXCEPT !.discarded = <<>>]
             = [FromLine(LineOf(Clean(fIn))) EXCEPT !.discarded = <<>>]

\* What does hold of a sentence with junk: it parses to the checksum and the
\* payload of the sentence itself, and the junk is in discarded.
C22_JunkKeepsChecksumAndPayload ==
    (fPc = "done" /\ WithJunk(fIn)) =>
        LET clean == FromLine(LineOf(Clean(fIn)))
        IN  /\ fOut.ok /\ clean.ok
            /\ fOut.checksum = clean.checksum
            /\ fOut.payload = clean.payload
            /\ fOut.opts = clean.opts
            /\ fOut.discarded # <<>>
            /\ fOut.raw = Trim(TrimEol(LineOf(fIn)))
            /\ fOut.raw # clean.raw

\* The text of a field is empty or, after trimming, begins with "-9".
EmptyOrMinusNine(text) ==
    \/ text = <<>>
    \/ LET t == Trim(text) IN Len(t) >= 2 /\ t[1] = 45 /\ t[2] = 57

\* C23: in every parsed Sensor or Current payload an optional numeric field
\* is absent if and only if its text is empty or, after trimming, begins with
\* "-9", at every optional numeric position; a field with any other text is
\* present.
C23_AbsentIffEmptyOrMinusNine ==
    (fPc = "done" /\ fOut.ok) =>
        \A k \in DOMAIN fOut.opts :
            (fOut.opts[k].val = <<>>) <=> EmptyOrMinusNine(fOut.opts[k].text)

\* The half that holds: a field that is empty or begins with "-9" is absent
\* at every optional position, and a present field has the value of its
\* own text.
C23_EmptyOrMinusNineIsAbsent ==
    (fPc = "done" /\ fOut.ok) =>
        \A k \in DOMAIN fOut.opts :
            /\ EmptyOrMinusNine(fOut.opts[k].text) => fOut.opts[k].val = <<>>
            /\ fOut.opts[k].val # <<>> => fOut.opts[k].val = <<fOut.opts[k].text>>

\* The sentinel sentence has been parsed: all its -9 fields are absent.
C23_SentinelsParsed ==
    /\ fPc = "done" /\ fOut.ok /\ fIn.body = 4
    /\ \E k \in DOMAIN fOut.opts : fOut.opts[k].val = <<>>
    /\ \E k \in DOMAIN fOut.opts : fOut.opts[k].val # <<>>

(***************************************************************************)
(* Claims about the processor's scan and the handoff window                *)
(***************************************************************************)

\* Every line of the processed file e was read by a replay of that file.
ReadByItsReplay(e) ==
    \E r \in BagToSet(replays) :
        /\ r.name = e.name
        /\ \A k \in 1..Len(e.lines) : \E m \in 1..Len(r.lines) : r.lines[m] = e.lines[k]

\* C24: the recorder appends no line to a handoff file between the
\* processor's judging the file stable and the end of its move out of the
\* handoff directory: every line of a file in the processed directory was
\* read by that file's replay.
C24_ProcessedLinesWereReplayed ==
    \A e \in pdir : e.name.s = <<>> => ReadByItsReplay(e)

\* The name ends in .writing, .failed or .processing.
Suffixed(n) == EndsWith(n, "w") \/ EndsWith(n, "f") \/ EndsWith(n, "p")

\* The processing loop is testing, replaying or moving its current file.
LoopHandlesCurrent == lPc \in {"statFile", "statMarker", "replay", "move", "moveFailed"}

\* C26: in every scan cycle the processor ignores the directory entries whose
\* names end in .writing, .failed or .processing: it never tests such a file
\* for stability, replays it, renames it or moves it, however old it is.
C26_SuffixedNamesAreIgnored ==
    /\ LoopHandlesCurrent => ~Suffixed(lCur)
    /\ \A r \in BagToSet(replays) : ~Suffixed(r.name)
    /\ \A e \in pdir : e.name.s \in {<<>>, <<"f">>}

\* The part about the replays and the processed directory alone (a processed
\* name is that of the handoff file, with .failed after a failed replay).
SuffixedNeverReplayedOrMoved ==
    /\ \A r \in BagToSet(replays) : ~Suffixed(r.name)
    /\ \A e \in pdir : e.name.s \in {<<>>, <<"f">>}

(***************************************************************************)
(* Claims about concurrent appends, checked under SpecAppend.              *)
(***************************************************************************)
\* The sink and the files after the calls in `frames`, made one after the
\* other.
RECURSIVE SequentialAppends(_, _, _)
SequentialAppends(inner, disk, frames) ==
    IF frames = <<>> THEN [inner |-> inner, disk |-> disk]
    ELSE LET r == PersistAppend(inner, disk, Head(frames), NoFail)
         IN  SequentialAppends(r.inner, r.disk, Tail(frames))

\* The pieces of a file that holds these lines, each with its newline.
PiecesOf(lines) ==
    [k \in 1..(2 * Len(lines)) |->
        IF k % 2 = 1 THEN LinePiece(lines[(k + 1) \div 2]) ELSE NewlinePiece]

\* The orders in which the calls made so far can be put.
Orders ==
    {o \in [1..Len(aCalls) -> 1..Len(aCalls)] :
        \A i, j \in 1..Len(aCalls) : i # j => o[i] # o[j]}

\* The files and the sink are what the calls give when made one by one in
\* the order o.
EqualsSequential(o) ==
    LET r == SequentialAppends(PersistenceNew, EmptyDisk,
                               [i \in 1..Len(aCalls) |-> aCalls[o[i]]])
    IN  /\ aInner = r.inner
        /\ aDisk.exists = r.disk.exists
        /\ \A d \in Dates : aDisk.content[d] = PiecesOf(r.disk.content[d])

InsideAppend(c) == aPc[c] \notin {"idle", "lock"}

\* In every file a line is followed by its newline, but for the line whose
\* writer is about to write it.
LinesWithNewlines ==
    \A d \in Dates : \A k \in 1..Len(aDisk.content[d]) :
        LET piece == aDisk.content[d][k]
        IN  IF k % 2 = 1
            THEN /\ piece.t = "line"
                 /\ k = Len(aDisk.content[d]) =>
                        \E c \in Tasks : aPc[c] \in {"pendingNewline", "frameNewline"}
            ELSE piece = NewlinePiece

\* C29: concurrent append calls on one sink are serialized: one call at a
\* time is between the lock and the return, so that a call's rotation, flush
\* of buffered frames and writes are not interleaved with another call's;
\* each line is written with its newline right after it; and when no call is
\* under way the files hold what some sequential order of the calls gives.
C29_ConcurrentAppendsAreSerialized ==
    /\ \A c, e \in Tasks : (InsideAppend(c) /\ InsideAppend(e)) => c = e
    /\ \A c \in Tasks : InsideAppend(c) => aOwner = c
    /\ LinesWithNewlines
    /\ (\A c \in Tasks : aPc[c] = "idle") => \E o \in Orders : EqualsSequential(o)

\* Two calls were under way at once, the second one waiting for the lock
\* while the first flushed a buffered frame into the file it had opened; all
\* three calls have returned.
C29_Witness ==
    /\ Len(aCalls) = 3
    /\ aCalls[1].date = 0 /\ aCalls[2].date = 1 /\ aCalls[3].date = 2
    /\ \A c \in Tasks : aPc[c] = "idle"
    /\ aDisk.content[2] = PiecesOf(<<[id |-> 1, date |-> 0], [id |-> 3, date |-> 2]>>)
    /\ aDisk.content[1] = PiecesOf(<<[id |-> 2, date |-> 1]>>)

(***************************************************************************)
(* Claims about the shutdown of the processing loop, under SpecStop.       *)
(***************************************************************************)
\* C30: after shutdown is signalled on the watch channel run_processing_loop
\* starts no further file, finishes at most the file it is replaying and
\* moving, and returns Ok: it does not go on looping once the signal is sent.
C30_LoopStopsAfterShutdown ==
    /\ [][lShutdown => /\ lCur' = lCur
                       /\ lPc' = "statFile" => lPc = "statFile"
                       /\ replays' # replays => lPc = "replay"
                       /\ pdir' # pdir => lPc \in {"move", "moveFailed"}]_vars
    /\ lShutdown ~> (lPc = "returned")

\* The signal came while the loop was on the first of the two stable files
\* of its scan (the raw file and, after it, the marker): the loop has
\* returned, the first file is replayed and moved and the second one is
\* still in the handoff directory, untouched.
C30_Witness ==
    /\ lShutdown
    /\ lPc = "returned"
    /\ Has(pdir, Raw(1))
    /\ lQueue = <<Marker(Raw(1))>>
    /\ Has(hdir, Marker(Raw(1)))
    /\ \A r \in BagToSet(replays) : r.name = Raw(1)

(***************************************************************************)
(* Claims about a processor that crashes and is restarted, under SpecCrash.*)
(***************************************************************************)
\* The k-th line the recorder wrote.
WrittenLine(k) == [id |-> k, date |-> 1]

InFile(line, e) == \E m \in 1..Len(e.lines) : e.lines[m] = line

\* The line is still in the handoff directory, or a replay has read it.
KeptOrReplayed(line) ==
    \/ \E e \in hdir : InFile(line, e)
    \/ \E r \in BagToSet(replays) : InFile(line, r)

\* C25: when the processor crashes at any point, also between the rename of
\* a file to <name>.processing and its move, and is restarted, every file
\* that was in the handoff directory is still replayed and moved in the end:
\* none is lost, so every line written is in the handoff directory until a
\* replay has read it.
C25_NoFileLostAcrossRestart ==
    \A k \in 1..wN : wPc # "marker" => KeptOrReplayed(WrittenLine(k))

(***************************************************************************)
(* Claims about the discarded list and the arity of a sentence, under      *)
(* SpecParse.                                                              *)
(***************************************************************************)
\* C39: the discarded list of a frame holds the removed fragments in the
\* order in which they occur in the input line: the junk before the sentence
\* marker comes before the junk after the two checksum digits.
C39_DiscardedInLineOrder ==
    (fPc = "done" /\ fOut.ok /\ fIn.junk /\ fIn.cs = "junk after") =>
        fOut.discarded = <<PrefixJunk, SuffixJunk>>

\* What the frame of a line with both kinds of junk holds.
DiscardedSuffixFirst ==
    (fPc = "done" /\ fOut.ok /\ fIn.junk /\ fIn.cs = "junk after") =>
        fOut.discarded = <<SuffixJunk, PrefixJunk>>

\* The number of fields after the identifier of the sentence of an input,
\* and the number its schema has.
FieldsAfterIdent(in) == Len(Split(Bodies[in.body])) - 1

Arity(in) ==
    LET ident == Split(StripDollar(Bodies[in.body]))[1]
    IN  IF ident = Tail(MarkerPNORI) THEN 7
        ELSE IF ident = Tail(MarkerPNORS) THEN 13
        ELSE IF ident = Tail(MarkerPNORC) THEN 18
        ELSE 0

\* C40: a checksum-valid sentence whose number of comma-separated fields
\* after the identifier is not its schema's arity (7 for PNORI, 13 for PNORS,
\* 18 for PNORC), fewer or more, is rejected with a schema error and gives no
\* Frame.
C40_WrongArityIsRejected ==
    (/\ fPc = "done"
     /\ fIn.cs \in {"upper", "lower"}
     /\ Arity(fIn) # 0
     /\ FieldsAfterIdent(fIn) # Arity(fIn)) =>
        /\ ~fOut.ok
        /\ fOut.err = "invalid payload"

\* The half that holds: a sentence with fewer fields is rejected.
FewerFieldsRejected ==
    (/\ fPc = "done"
     /\ fIn.cs \in {"upper", "lower"}
     /\ Arity(fIn) # 0
     /\ FieldsAfterIdent(fIn) < Arity(fIn)) =>
        /\ ~fOut.ok
        /\ fOut.err = "invalid payload"

(***************************************************************************)
(* Claim about empty lines in the recording pipeline, under SpecRec.       *)
(***************************************************************************)
\* The lines next_line has returned with an empty text.
EmptyLines == {i \in 1..Len(rRaw) : rRaw[i] = <<>>}

\* C31: the recording pipeline fans out only non-empty lines: no step of the
\* backup sink, of the handoff sink (whose append rewrites the .writing
\* marker) or of the parser is done for a line whose text is empty.
C31_EmptyLinesAreNotFannedOut ==
    \A i \in EmptyLines : StepsOf(i) = {}

\* What the pipeline does with an empty line: both sinks are appended to, the
\* parser is called and rejects it, nothing is persisted.
EmptyLinesGoToSinksAndParser ==
    \A i \in EmptyLines \cap LinesDone :
        /\ StepsOf(i) = {"backup", "handoff", "parse"}
        /\ ~ParsedOk(i)

(***************************************************************************)
(* Claims about the watchdog and the age of a child, under SpecSup.        *)
(***************************************************************************)
\* C36: the watchdog does not kill a child process before the process has
\* been running for a staleness threshold: a heartbeat file that is missing,
\* or that the previous process of the slot left, does not by itself get the
\* new process killed.
C36_NewChildHasAThresholdToBeat ==
    [][\A c \in KidSet :
          (cPc[c] = "kill" /\ cPc'[c] = "reap" /\ slot[c] # 0)
              => sClock - born[slot[c]] >= ThresholdSecs]_vars

\* A process that was spawned to replace one with an old heartbeat file is
\* killed, with that file untouched, before a threshold has gone by.
LeftoverHeartbeatKillsReplacement ==
    \E c \in KidSet :
        /\ cPc[c] = "kill"
        /\ slot[c] > Len(Kids)
        /\ slot[c] \in alive
        /\ \E m \in hb[c] : m < born[slot[c]]
        /\ sClock - born[slot[c]] < ThresholdSecs

(***************************************************************************)
(* Claim about the restart of a child whose heartbeat stops, under         *)
(* SpecWatch.                                                              *)
(***************************************************************************)
\* The heartbeat file of the child is older than the threshold.
AgedOut(c) == \E m \in hb[c] : sClock - m > ThresholdSecs

\* C32: while the supervisor is not shutting down, a child whose heartbeat
\* file has become older than the threshold and stays so is killed and a
\* spawn of its replacement follows: the check that reads the old age decides
\* for the restart, and as long as the file stays old and no process is put
\* in place (the spawn failed) a later check restarts again.
C32_StaleChildIsRestarted ==
    /\ [][\A c \in KidSet :
             (/\ cPc[c] = "meta" /\ cPc'[c] # "meta"
              /\ \E m \in hb[c] : wdNow - m > ThresholdSecs) => cPc'[c] = "kill"]_vars
    /\ \A c \in KidSet :
          (oPc = "wait" /\ AgedOut(c))
              ~> (cPc[c] = "reap" \/ oPc # "wait" \/ ~AgedOut(c))

\* The child wrote its heartbeat when it started and never again; the file
\* is now older than the threshold, the watchdog has killed the child and is
\* about to spawn its replacement.
C32_Witness ==
    \E c \in KidSet :
        /\ oPc = "wait"
        /\ hb[c] = {0} /\ AgedOut(c)
        /\ cPc[c] = "reap"
        /\ slot[c] = 0
        /\ alive = 1..Len(Kids) \ {CHOOSE i \in 1..Len(Kids) : Kids[i] = c}

(***************************************************************************)
(* Claim about the long-lived backup sink, under SpecBackup.               *)
(***************************************************************************)
\* C33: every call of the long-lived Backup::append that returns Ok has
\* written its line and a newline to the file of the date of its timestamp:
\* after the call the file holds what it held before, followed by the line.
C33_OkAppendWroteTheLine ==
    [][(Len(bLog') = Len(bLog) + 1 /\ bLog'[Len(bLog')].ok)
          => LET d == bLog'[Len(bLog')].date
             IN  bFiles'[d] = Append(bFiles[d], Len(bLog'))]_vars

\* A roll to a new date failed at the open and the next call carries the
\* previous date: it returns Ok and no file has its line.
OkAppendAfterFailedRollWroteNothing ==
    \E k \in 2..Len(bLog) :
        /\ bLog[k - 1].at = "open" /\ bLog[k - 1].date # bLog[k].date
        /\ bLog[k].ok
        /\ \A d \in Dates : \A j \in 1..Len(bFiles[d]) : bFiles[d][j] # k

\* With no failed roll before it, an Ok call has written its line.
OkAppendWroteUnlessRollFailed ==
    [][(/\ Len(bLog') = Len(bLog) + 1 /\ bLog'[Len(bLog')].ok
        /\ \A i \in 1..Len(bLog) : bLog[i].at # "open")
          => LET d == bLog'[Len(bLog')].date
             IN  bFiles'[d] = Append(bFiles[d], Len(bLog'))]_vars

(***************************************************************************)
(* Claim about the heartbeat interval and the staleness threshold, under   *)
(* SpecBeat.                                                               *)
(***************************************************************************)
\* C37: for every value of file_stability_seconds the heartbeat interval
\* max(1, min(5, S)) is strictly less than the staleness threshold
\* max(10, 3 * S), the product saturating at the largest value of the type,
\* and no reading the watchdog makes of the heartbeat file of a child that
\* writes it at every tick of its interval finds it stale.
C37_BeatingChildIsNeverStale ==
    /\ HbInterval(kSecs) < ThresholdOf(kSecs)
    /\ \A i \in 1..Len(kSeen) : ~kSeen[i]

\* The product saturates; the child has rewritten its file once and the
\* watchdog has read it twice, the second time at the moment the child's
\* next tick is due.
C37_Witness ==
    /\ 3 * kSecs > MaxSecs
    /\ kBeat = HbInterval(kSecs)
    /\ kClock = kBeat + HbInterval(kSecs)
    /\ Len(kSeen) = MaxChecks

(***************************************************************************)
(* Claim about what a move does to the processed directory, under          *)
(* SpecRecreate.                                                           *)
(***************************************************************************)
\* The lines that the files of a directory hold.
LinesIn(dir) == UNION {{e.lines[k] : k \in 1..Len(e.lines)} : e \in dir}

\* C34: moving a handoff file into the processed directory never replaces
\* content already there: every line that a file of the processed directory
\* holds is still in the processed directory after any step, also when the
\* recorder has recreated <date>.raw after an earlier file of that name was
\* processed and moved, and the new file is moved in its turn.
C34_MoveKeepsProcessedLines ==
    [][LinesIn(pdir) \subseteq LinesIn(pdir')]_vars

\* The second file of the name has been replayed and moved: the processed
\* directory holds its line and not the line of the first.
SecondMoveReplacedFirstFile ==
    /\ Has(pdir, Raw(1))
    /\ Ent(pdir, Raw(1)).lines = <<WrittenLine(2)>>
    /\ \E r \in BagToSet(replays) :
          r.name = Raw(1) /\ r.lines = <<WrittenLine(1)>>
    /\ ~Has(hdir, Raw(1))

(***************************************************************************)
(* Claim about what is put into the processed directory, under SpecOrch.   *)
(***************************************************************************)
\* C35: every file that is in the processed directory under an unsuffixed
\* .raw name was replayed through the parser before it was placed there: no
\* component puts an unreplayed handoff file there under its original name.
C35_ProcessedRawWasReplayed ==
    \A e \in pdir :
        e.name.s = <<>> => \E r \in BagToSet(replays) : r.name = e.name

\* run_orchestrator has returned: the file the recorder was writing is in the
\* processed directory and nothing was ever replayed.
ShutdownMovedUnreplayedFile ==
    /\ oPc = "returned"
    /\ Has(pdir, Raw(1))
    /\ BagToSet(replays) = {}

\* As long as run_orchestrator has not reached its cleanup, the files of the
\* processed directory with an unsuffixed name were replayed.
ReplayedBeforeShutdownCleanup ==
    oPc # "returned" => C35_ProcessedRawWasReplayed

(***************************************************************************)
(* Claim about the manager's semaphore, under SpecBacklog.                 *)
(***************************************************************************)
\* The tasks whose permit is given back in a step: they are gone from the
\* set of tasks.
Released == {w \in workers : \A v \in workers' : v.input # w.input}

\* The name under which the task of w leaves its file in the processed
\* directory.
DestOf(w) == IF w.st = "ok" THEN w.fname ELSE Failed(w.fname)

\* At most 4 tasks hold a permit; the worker processes are among them.
AtMostPermitsWorkers == Cardinality(workers) <= Permits

\* A name ending in .processing comes up in the handoff directory only
\* together with a new task that holds one of the permits.
RenamedUnderPermit ==
    [][\A e \in hdir' :
          (EndsWith(e.name, "p") /\ ~Has(hdir, e.name))
              => /\ \E w \in workers' : w.input = e.name /\ w.st = "spawned"
                 /\ \A w \in workers : w.input # e.name
                 /\ Cardinality(workers') <= Permits]_vars

\* A permit is given back only by a task whose worker process has exited.
ReleasedAfterWorkerExit ==
    [][\A w \in Released : w.st # "spawned"]_vars

\* C38: in the processing manager at most 4 worker processes run at any
\* moment, a file is renamed to <name>.processing only while its task holds
\* one of the 4 permits, and a permit is released only after the worker has
\* exited and the task's file has been moved to the processed directory.
C38_PermitHeldFromRenameToMove ==
    /\ []AtMostPermitsWorkers
    /\ RenamedUnderPermit
    /\ [][\A w \in Released :
             /\ w.st # "spawned"
             /\ ~Has(hdir', w.input)
             /\ Has(pdir', DestOf(w))]_vars

\* Four tasks hold the permits and the scan waits for a permit with a fifth
\* stable file at hand.
ScanWaitsForPermit ==
    /\ Cardinality(workers) = Permits
    /\ mPc = "rename"
    /\ Has(hdir, mCur)

\* A task has ended and given its permit back; its file is still in the
\* handoff directory, under the name a later scan gave it, and not in the
\* processed directory.
ReleasedWithFileNotMoved ==
    \E f \in 1..NBacklog :
        /\ \A w \in workers : w.input # Processing(Raw(f))
        /\ Has(hdir, Processing(Processing(Raw(f))))
        /\ ~Has(pdir, Raw(f))

=============================================================================
